---- MODULE Spec2Model ----
(***************************************************************************)
(* Verification model of the guided path tracer's SD-tree                  *)
(* (src/mitsuba/src/integrators/path/guided_path.cpp).                     *)
(*                                                                         *)
(* Float values are modelled as exact rationals <<n, d>> with d > 0 in     *)
(* lowest terms; SpecAdam rounds, see FRound.  A point of the unit square is*)
(* the sequence of its quadrant digits (its base-2 expansion, x in bit 0   *)
(* and y in bit 1); trailing digits are zero.                              *)
(*                                                                         *)
(* The module holds its specifications over one set of variables:          *)
(*   Spec        one DTreeWrapper driven through reset / record / build    *)
(*   SpecAtomic  threads recording concurrently into one DTree             *)
(*   SpecCtl     the iteration controller (renderSPP / renderTime)         *)
(*   SpecReplay  the replay routines over the retained paths               *)
(*   SpecSTree   the spatial tree driven through subdivide / refine        *)
(*   SpecAdam    the AdamOptimizer driven through append / step            *)
(*   SpecLock    threads in optimizeBsdfSamplingFraction of one wrapper    *)
(*   SpecBuf     the retained-path buffer filled by the render blocks      *)
(*   SpecSpp     renderSPP alone, every pass succeeding                    *)
(*   SpecCollect render threads in record / sampleMat on one wrapper       *)
(*   SpecPath    the vertices and radiance records of one path in Li       *)
(***************************************************************************)
EXTENDS Integers, Sequences, FiniteSets, TLC

VARIABLES
    w,        \* the DTreeWrapper: building, sampling, previous, augmented, ...
    env,      \* its surroundings: m_isBuilt, the phase of the iteration, history
    shared,   \* SpecAtomic: the DTree the threads record into
    thr,      \* SpecAtomic: per thread, the calls left and the position in the CAS loop
    ctl,      \* SpecCtl: the controller's state
    rp,       \* SpecReplay: the retained paths and the commits made
    stree,    \* SpecSTree: the spatial tree's nodes and the last call made
    adam,     \* SpecAdam: the AdamOptimizer's state
    lk,       \* SpecLock: the wrapper's spin lock, its optimizer, and each thread's position
    buf,      \* SpecBuf: the retained-path buffer and its growth index
    cw,       \* SpecCollect: one wrapper and the render threads that record and sample
    pth       \* SpecPath: the path record Li builds and the radiance its replay adds

vars == <<w, env, shared, thr, ctl, rp, stree, adam, lk, buf, cw, pth>>

----------------------------------------------------------------------------
(* Bounds of the model *)

\* Stands for std::numeric_limits<uint16_t>::max(), the node ceiling of
\* DTree::reset, scaled down so that a reset can reach it.
NodeIndexMax == 7
\* Largest newMaxDepth handed to DTree::reset.
MaxDepthArg == 4
\* record calls per run, and iterations (builds) per run.
MaxRecords == 2
MaxIters == 3
\* Threads that record concurrently into one DTree.
NumThreads == 2
\* Largest nPasses of an spp budget, largest seconds budget, and the longest
\* a render pass takes (in half seconds).
MaxPasses == 7
MaxSeconds == 2
MaxTick == 3
\* Calls of a replay routine per run.
MaxReplays == 2
\* Calls of render() on one integrator.
MaxRuns == 2

----------------------------------------------------------------------------
(* Exact rational arithmetic standing for Float *)

Abs(x) == IF x < 0 THEN -x ELSE x

RECURSIVE GCD(_, _)
GCD(a, b) == IF b = 0 THEN a ELSE GCD(b, a % b)

Rat(n, d) ==
    LET s == IF d < 0 THEN -1 ELSE 1
        g == GCD(Abs(n), Abs(d))
    IN  IF n = 0 THEN <<0, 1>> ELSE <<(s * n) \div g, (s * d) \div g>>

Zero == <<0, 1>>
One == <<1, 1>>
Four == <<4, 1>>
RInt(n) == <<n, 1>>

RAdd(a, b) ==
    LET g == GCD(a[2], b[2])
    IN  Rat(a[1] * (b[2] \div g) + b[1] * (a[2] \div g), (a[2] \div g) * b[2])
RNeg(a) == <<-a[1], a[2]>>
RSub(a, b) == RAdd(a, RNeg(b))
RMul(a, b) ==
    LET g1 == GCD(Abs(a[1]), b[2])
        g2 == GCD(Abs(b[1]), a[2])
    IN  Rat((a[1] \div g1) * (b[1] \div g2), (a[2] \div g2) * (b[2] \div g1))
RDiv(a, b) == RMul(a, IF b[1] < 0 THEN <<-b[2], -b[1]>> ELSE <<b[2], b[1]>>)
RLt(a, b) ==
    LET g == GCD(a[2], b[2])
    IN  a[1] * (b[2] \div g) < b[1] * (a[2] \div g)
RLe(a, b) == ~RLt(b, a)
RMax(a, b) == IF RLt(a, b) THEN b ELSE a
RMin(a, b) == IF RLt(b, a) THEN b ELSE a
RAbs(a) == <<Abs(a[1]), a[2]>>

\* const float EPSILON = 1e-5f
EPSILON == <<1, 100000>>
\* Stands for std::numeric_limits<float>::max(): only ever compared and
\* replaced, never used in arithmetic.
FloatMax == <<1000000000, 1>>
\* std::numeric_limits<float>::min(), the smallest normal float: any
\* positive rational of the model is larger.
FloatMinExceeded(x) == RLt(Zero, x)

----------------------------------------------------------------------------
(* QuadTreeNode *)

Slots == 0..3

\* QuadTreeNode(): children all 0 (leaf), sums all 0.
QuadTreeNode == [sum |-> [i \in Slots |-> Zero], child |-> [i \in Slots |-> 0]]

setSum(node, index, val) == [node EXCEPT !.sum[index] = val]
setSumAll(node, val) == [node EXCEPT !.sum = [i \in Slots |-> val]]
setChild(node, idx, val) == [node EXCEPT !.child[idx] = val]
isLeaf(node, index) == node.child[index] = 0

\* m_nodes is a 0-based vector, kept as a 1-based sequence.
NodeAt(nodes, idx) == nodes[idx + 1]
SetNodeAt(nodes, idx, node) == [nodes EXCEPT ![idx + 1] = node]

SumOf(node) ==
    RAdd(RAdd(node.sum[0], node.sum[1]), RAdd(node.sum[2], node.sum[3]))

\* childIndex(p): the quadrant digit of p; p is rescaled into the child.
childIndex(p) == IF p = <<>> THEN 0 ELSE Head(p)
Rescaled(p) == IF p = <<>> THEN <<>> ELSE Tail(p)

\* QuadTreeNode::build with a dropped recursion or a dropped slot, see BuildNode.
BuildNodeShallow(nodes, idx) ==
    LET step(ns, i) ==
            IF isLeaf(NodeAt(ns, idx), i) THEN ns
            ELSE LET c == NodeAt(ns, idx).child[i]
                 IN  SetNodeAt(ns, idx, setSum(NodeAt(ns, idx), i, SumOf(NodeAt(ns, c))))
    IN  step(step(step(step(nodes, 0), 1), 2), 3)

\* QuadTreeNode::build: post-order, every non-leaf slot gets the sum of its
\* child's four sums.
RECURSIVE BuildNode(_, _)
BuildNode(nodes, idx) ==
    LET step(ns, i) ==
            IF isLeaf(NodeAt(ns, idx), i) THEN ns
            ELSE LET c == NodeAt(ns, idx).child[i]
                     built == BuildNode(ns, c)
                 IN  SetNodeAt(built, idx,
                               setSum(NodeAt(built, idx), i, SumOf(NodeAt(built, c))))
    IN  step(step(step(step(nodes, 0), 1), 2), 3)

\* QuadTreeNode::setMinimumIrr: every leaf sum below irr is raised to irr.
RECURSIVE SetMinimumIrrNode(_, _, _)
SetMinimumIrrNode(nodes, idx, irr) ==
    LET step(ns, i) ==
            IF isLeaf(NodeAt(ns, idx), i)
            THEN IF RLt(NodeAt(ns, idx).sum[i], irr)
                 THEN SetNodeAt(ns, idx, setSum(NodeAt(ns, idx), i, irr))
                 ELSE ns
            ELSE SetMinimumIrrNode(ns, NodeAt(ns, idx).child[i], irr)
    IN  step(step(step(step(nodes, 0), 1), 2), 3)

\* QuadTreeNode::record(p, irradiance): the leaf slot that p addresses, as
\* <<node index, slot>>.
RECURSIVE LeafAt(_, _, _)
LeafAt(nodes, idx, p) ==
    LET index == childIndex(p)
    IN  IF isLeaf(NodeAt(nodes, idx), index) THEN <<idx, index>>
        ELSE LeafAt(nodes, NodeAt(nodes, idx).child[index], Rescaled(p))

RecordNode(nodes, p, irradiance) ==
    LET at == LeafAt(nodes, 0, p)
        n == NodeAt(nodes, at[1])
    IN  SetNodeAt(nodes, at[1], setSum(n, at[2], RAdd(n.sum[at[2]], irradiance)))

\* QuadTreeNode::pdf(p, nodes, level, curr_level), times 1 (the caller
\* divides by 4 pi).  level = -1 never truncates.
RECURSIVE PdfNode(_, _, _, _, _)

\* QuadTreeNode::pdf without the division by the node's four sums, see PdfNode.
PdfNodeUnnormalised(nodes, idx, p, level, curr_level) ==
    LET node == NodeAt(nodes, idx)
        index == childIndex(p)
    IN  IF ~RLt(Zero, node.sum[index]) THEN Zero
        ELSE LET factor == RMul(Four, node.sum[index])
             IN  IF isLeaf(node, index) \/ level = curr_level THEN factor
                 ELSE RMul(factor, PdfNode(nodes, node.child[index], Rescaled(p),
                                           level, curr_level + 1))

PdfNode(nodes, idx, p, level, curr_level) ==
    LET node == NodeAt(nodes, idx)
        index == childIndex(p)
    IN  IF ~RLt(Zero, node.sum[index]) THEN Zero
        ELSE LET factor == RDiv(RMul(Four, node.sum[index]), SumOf(node))
             IN  IF isLeaf(node, index) \/ level = curr_level THEN factor
                 ELSE RMul(factor, PdfNode(nodes, node.child[index], Rescaled(p),
                                           level, curr_level + 1))

----------------------------------------------------------------------------
(* DTree *)

\* DTree(): one root node, zero sum and weight.
DTree == [nodes |-> <<QuadTreeNode>>, sum |-> Zero, statisticalWeight |-> Zero,
          maxDepth |-> 0]

numNodes(t) == Len(t.nodes)

\* DTree::mean() times 4 pi.
mean4Pi(t) ==
    IF t.statisticalWeight = Zero THEN Zero ELSE RDiv(t.sum, t.statisticalWeight)

\* DTree::build: build the quadtree from the root, then store the root's sum.
DTreeBuild(t) ==
    LET built == BuildNode(t.nodes, 0)
    IN  [t EXCEPT !.nodes = built, !.sum = SumOf(NodeAt(built, 0))]

\* DTree::setMinimumIrr
DTreeSetMinimumIrr(t, irr) == [t EXCEPT !.nodes = SetMinimumIrrNode(t.nodes, 0, irr)]

\* DTree::recordIrradiance with the nearest directional filter (the default).
recordIrradiance(t, p, irradiance, statisticalWeight) ==
    IF RLt(Zero, statisticalWeight)
    THEN LET t1 == [t EXCEPT !.statisticalWeight = RAdd(@, statisticalWeight)]
         IN  IF RLt(Zero, irradiance)
             THEN [t1 EXCEPT !.nodes = RecordNode(t.nodes, p, RMul(irradiance, statisticalWeight))]
             ELSE t1
    ELSE t

\* DTree::pdf(p, level, curr_level) times 4 pi: uniform when the mean is not
\* positive, else the root's pdf.
DTreePdf4Pi(t, p, level, curr_level) ==
    IF ~RLt(Zero, mean4Pi(t)) THEN One
    ELSE PdfNode(t.nodes, 0, p, level, curr_level)

\* DTree::computeAugmentedPdf(oldPdf, newPdf, A)
computeAugmentedPdf(oldPdf, newPdf, A) ==
    RMax(Zero, RDiv(RSub(RMul(A, newPdf), oldPdf), RSub(A, One)))

\* DTree::computeAugmentedPdf(oldPdf, newPdf)
computeAugmentedPdf2(oldPdf, newPdf) == RMax(RSub(newPdf, oldPdf), Zero)

\* The denominator and the pdf of slot i of a stacked <<node, slot>> pair, as
\* getMajorizingFactor, validateMajorizingFactor and buildAugmented compute
\* them: a pair that stands on a leaf keeps its slot and uses 4 * sum[slot].
PairDenom(nodes, ni) ==
    IF ni[2] < 0 THEN SumOf(NodeAt(nodes, ni[1]))
    ELSE RMul(NodeAt(nodes, ni[1]).sum[ni[2]], Four)
PairChildIdx(ni, i) == IF ni[2] < 0 THEN i ELSE ni[2]
PairPdf(nodes, ni, factor, i) ==
    LET denom == PairDenom(nodes, ni)
    IN  IF RLt(denom, EPSILON) THEN Zero
        ELSE RDiv(RMul(RMul(factor, Four), NodeAt(nodes, ni[1]).sum[PairChildIdx(ni, i)]), denom)
PairNext(nodes, ni, i) ==
    LET c == PairChildIdx(ni, i)
    IN  IF isLeaf(NodeAt(nodes, ni[1]), c) THEN <<ni[1], c>>
        ELSE <<NodeAt(nodes, ni[1]).child[c], -1>>

Top(stack) == stack[Len(stack)]
Pop(stack) == SubSeq(stack, 1, Len(stack) - 1)

\* One slot i of getMajorizingFactor's loop body (lines 542-572): when
\* either side is a leaf the floored pdfs give a scaling factor, else the
\* pair of children is stacked.
MajSlot(this, other, np, acc, i) ==
    LET childIdx == PairChildIdx(np.nodeIndex, i)
        otherChildIdx == PairChildIdx(np.otherNodeIndex, i)
        pdf == PairPdf(this.nodes, np.nodeIndex, np.nodeFactor, i)
        otherPdf == PairPdf(other.nodes, np.otherNodeIndex, np.otherNodeFactor, i)
    IN  IF isLeaf(NodeAt(this.nodes, np.nodeIndex[1]), childIdx)
           \/ isLeaf(NodeAt(other.nodes, np.otherNodeIndex[1]), otherChildIdx)
        THEN LET fpdf == RMax(pdf, EPSILON)
                 fother == RMax(otherPdf, EPSILON)
                 scalingFactor == RDiv(fother, fpdf)
             IN  IF RLt(acc.largest, scalingFactor)
                 THEN [acc EXCEPT !.largest = scalingFactor, !.pdfPair = <<fpdf, fother>>]
                 ELSE acc
        ELSE [acc EXCEPT !.stack = Append(@,
                 [nodeIndex |-> PairNext(this.nodes, np.nodeIndex, i),
                  otherNodeIndex |-> PairNext(other.nodes, np.otherNodeIndex, i),
                  nodeFactor |-> pdf, otherNodeFactor |-> otherPdf])]

RECURSIVE MajLoop(_, _, _)
MajLoop(this, other, acc) ==
    IF acc.stack = <<>> THEN acc
    ELSE LET np == Top(acc.stack)
             a0 == [acc EXCEPT !.stack = Pop(@)]
         IN  MajLoop(this, other,
                 MajSlot(this, other, np,
                   MajSlot(this, other, np,
                     MajSlot(this, other, np,
                       MajSlot(this, other, np, a0, 0), 1), 2), 3))

RootPair == [nodeIndex |-> <<0, -1>>, otherNodeIndex |-> <<0, -1>>,
             nodeFactor |-> One, otherNodeFactor |-> One]

\* DTree::getMajorizingFactor: <<pdf of this, pdf of other>> at the slot
\* where other / this is largest.
getMajorizingFactor(this, other) ==
    MajLoop(this, other,
            [stack |-> <<RootPair>>, largest |-> Zero, pdfPair |-> <<One, One>>]).pdfPair

\* One slot of validateMajorizingFactor's loop body (lines 444-467).
ValSlot(this, other, factor, np, acc, i) ==
    IF ~acc.ok THEN acc
    ELSE
    LET childIdx == PairChildIdx(np.nodeIndex, i)
        otherChildIdx == PairChildIdx(np.otherNodeIndex, i)
        pdf == PairPdf(this.nodes, np.nodeIndex, np.nodeFactor, i)
        otherPdf == PairPdf(other.nodes, np.otherNodeIndex, np.otherNodeFactor, i)
    IN  IF isLeaf(NodeAt(this.nodes, np.nodeIndex[1]), childIdx)
           /\ isLeaf(NodeAt(other.nodes, np.otherNodeIndex[1]), otherChildIdx)
        THEN LET mpdf == RMul(factor, pdf)
             IN  IF RLt(RSub(mpdf, otherPdf), RSub(Zero, EPSILON))
                 THEN [acc EXCEPT !.ok = FALSE]
                 ELSE acc
        ELSE [acc EXCEPT !.stack = Append(@,
                 [nodeIndex |-> PairNext(this.nodes, np.nodeIndex, i),
                  otherNodeIndex |-> PairNext(other.nodes, np.otherNodeIndex, i),
                  nodeFactor |-> pdf, otherNodeFactor |-> otherPdf])]

RECURSIVE ValLoop(_, _, _, _)
ValLoop(this, other, factor, acc) ==
    IF acc.stack = <<>> \/ ~acc.ok THEN acc
    ELSE LET np == Top(acc.stack)
             a0 == [acc EXCEPT !.stack = Pop(@)]
         IN  ValLoop(this, other, factor,
                 ValSlot(this, other, factor, np,
                   ValSlot(this, other, factor, np,
                     ValSlot(this, other, factor, np,
                       ValSlot(this, other, factor, np, a0, 0), 1), 2), 3))

\* DTree::validateMajorizingFactor: TRUE iff factor * pdf_this >= pdf_other
\* - EPSILON at every leaf pair of the common refinement.
validateMajorizingFactor(this, other, factor) ==
    ValLoop(this, other, factor, [stack |-> <<RootPair>>, ok |-> TRUE]).ok

\* The rest of one slot i of buildAugmented's loop body once oldPdf and
\* newPdf are known (lines 874-889): the augmented pdf, the new node and
\* the stacked pair when neither side is a leaf, and the slot's sum.
AugStore(oldDist, newDist, A, np, acc, i, oldPdf, newPdf) ==
    LET oldChildIdx == PairChildIdx(np.oldNodeIndex, i)
        newChildIdx == PairChildIdx(np.newNodeIndex, i)
        pdf == computeAugmentedPdf(oldPdf, newPdf, A)
        size == Len(acc.nodes)
        a1 == IF ~(isLeaf(NodeAt(newDist.nodes, np.newNodeIndex[1]), newChildIdx)
                   \/ isLeaf(NodeAt(oldDist.nodes, np.oldNodeIndex[1]), oldChildIdx))
              THEN [nodes |-> Append(SetNodeAt(acc.nodes, np.nodeIdx,
                                      setChild(NodeAt(acc.nodes, np.nodeIdx), i, size)),
                                     setSumAll(QuadTreeNode, RDiv(pdf, Four))),
                    stack |-> Append(acc.stack,
                       [newNodeIndex |-> PairNext(newDist.nodes, np.newNodeIndex, i),
                        oldNodeIndex |-> PairNext(oldDist.nodes, np.oldNodeIndex, i),
                        newNodeFactor |-> newPdf, oldNodeFactor |-> oldPdf,
                        nodeIdx |-> size])]
              ELSE acc
    IN  [a1 EXCEPT !.nodes = SetNodeAt(a1.nodes, np.nodeIdx,
                                       setSum(NodeAt(a1.nodes, np.nodeIdx), i, pdf))]

\* One slot i of buildAugmented's loop body (lines 866-890); acc holds the
\* augmented tree's nodes and the stack of pairs.
AugSlot(oldDist, newDist, A, np, acc, i) ==
    AugStore(oldDist, newDist, A, np, acc, i,
             PairPdf(oldDist.nodes, np.oldNodeIndex, np.oldNodeFactor, i),
             PairPdf(newDist.nodes, np.newNodeIndex, np.newNodeFactor, i))

RECURSIVE AugLoop(_, _, _, _)
AugLoop(oldDist, newDist, A, acc) ==
    IF acc.stack = <<>> THEN acc
    ELSE LET np == Top(acc.stack)
             a0 == [acc EXCEPT !.stack = Pop(@)]
         IN  AugLoop(oldDist, newDist, A,
                 AugSlot(oldDist, newDist, A, np,
                   AugSlot(oldDist, newDist, A, np,
                     AugSlot(oldDist, newDist, A, np,
                       AugSlot(oldDist, newDist, A, np, a0, 0), 1), 2), 3))

\* The factor A that buildAugmented derives from the majorizing pair (line 826).
MajorizingA(pair) ==
    IF RLt(pair[1], EPSILON) /\ RLt(pair[2], EPSILON) THEN One
    ELSE RDiv(pair[2], pair[1])

\* DTree::buildAugmented after A has been computed (lines 828-896).
buildAugmentedWith(this, oldDist, newDist, A) ==
    LET cleared == [this EXCEPT !.sum = Zero, !.statisticalWeight = Zero, !.maxDepth = 0]
    IN  IF RLt(RAbs(RSub(A, One)), EPSILON)
        THEN [tree |-> cleared, ret |-> Zero]
        ELSE LET acc == AugLoop(oldDist, newDist, A,
                     [nodes |-> <<setSumAll(QuadTreeNode, computeAugmentedPdf(One, One, A))>>,
                      stack |-> <<[newNodeIndex |-> <<0, -1>>, oldNodeIndex |-> <<0, -1>>,
                                   newNodeFactor |-> One, oldNodeFactor |-> One,
                                   nodeIdx |-> 0]>>])
                 built == DTreeBuild([cleared EXCEPT !.nodes = acc.nodes])
             IN  [tree |-> [built EXCEPT !.statisticalWeight = newDist.statisticalWeight],
                  ret |-> RSub(A, One)]

\* DTree::buildAugmented(oldDist, newDist) on the tree `this`: the tree
\* afterwards and the value returned.
buildAugmented(this, oldDist, newDist) ==
    buildAugmentedWith(this, oldDist, newDist,
                       MajorizingA(getMajorizingFactor(newDist, oldDist)))

\* One slot i of buildUnmajorizedAugmented's loop body (lines 791-809).
UnmajSlot(oldDist, newDist, np, acc, i) ==
    LET oldNode == NodeAt(oldDist.nodes, np.oldNodeIndex)
        newNode == NodeAt(newDist.nodes, np.newNodeIndex)
        oldDenom == SumOf(oldNode)
        newDenom == SumOf(newNode)
        oldPdf == IF RLt(oldDenom, EPSILON) THEN Zero
                  ELSE RDiv(RMul(RMul(np.oldNodeFactor, Four), oldNode.sum[i]), oldDenom)
        newPdf == IF RLt(newDenom, EPSILON) THEN Zero
                  ELSE RDiv(RMul(RMul(np.newNodeFactor, Four), newNode.sum[i]), newDenom)
        size == Len(acc.nodes)
    IN  IF isLeaf(newNode, i) \/ isLeaf(oldNode, i)
        THEN [acc EXCEPT !.nodes = SetNodeAt(acc.nodes, np.nodeIdx,
                 setSum(NodeAt(acc.nodes, np.nodeIdx), i, computeAugmentedPdf2(oldPdf, newPdf)))]
        ELSE [nodes |-> Append(SetNodeAt(acc.nodes, np.nodeIdx,
                                 setChild(NodeAt(acc.nodes, np.nodeIdx), i, size)),
                               QuadTreeNode),
              stack |-> Append(acc.stack,
                 [newNodeIndex |-> newNode.child[i], oldNodeIndex |-> oldNode.child[i],
                  newNodeFactor |-> newPdf, oldNodeFactor |-> oldPdf, nodeIdx |-> size])]

RECURSIVE UnmajLoop(_, _, _)
UnmajLoop(oldDist, newDist, acc) ==
    IF acc.stack = <<>> THEN acc
    ELSE LET np == Top(acc.stack)
             a0 == [acc EXCEPT !.stack = Pop(@)]
         IN  UnmajLoop(oldDist, newDist,
                 UnmajSlot(oldDist, newDist, np,
                   UnmajSlot(oldDist, newDist, np,
                     UnmajSlot(oldDist, newDist, np,
                       UnmajSlot(oldDist, newDist, np, a0, 0), 1), 2), 3))

\* DTree::computeIntegral: the leaf sums weighted by (1/4)^depth.
RECURSIVE IntegralNode(_, _, _)
IntegralNode(nodes, idx, nodeFactor) ==
    LET node == NodeAt(nodes, idx)
        factor == RDiv(nodeFactor, Four)
        term(i) == IF isLeaf(node, i) THEN RMul(node.sum[i], factor)
                   ELSE IntegralNode(nodes, node.child[i], factor)
    IN  RAdd(RAdd(term(0), term(1)), RAdd(term(2), term(3)))

computeIntegral(t) == IntegralNode(t.nodes, 0, One)

\* DTree::buildUnmajorizedAugmented(oldDist, newDist) on the tree `this`.
buildUnmajorizedAugmented(this, oldDist, newDist) ==
    LET acc == UnmajLoop(oldDist, newDist,
                 [nodes |-> <<QuadTreeNode>>,
                  stack |-> <<[newNodeIndex |-> 0, oldNodeIndex |-> 0,
                               newNodeFactor |-> One, oldNodeFactor |-> One,
                               nodeIdx |-> 0]>>])
        built == DTreeBuild([this EXCEPT !.nodes = acc.nodes, !.sum = Zero,
                                         !.statisticalWeight = Zero])
        tree == [built EXCEPT !.statisticalWeight = newDist.statisticalWeight]
    IN  [tree |-> tree, ret |-> computeIntegral(tree)]

\* pow(0.25f, depth)
RECURSIVE PowQuarter(_)
PowQuarter(depth) == IF depth <= 0 THEN One ELSE RDiv(PowQuarter(depth - 1), Four)

\* What a read through `otherNode` can return in DTree::reset once
\* m_nodes.emplace_back() may have reallocated the vector the reference
\* points into (otherDTree == this): the old value (no reallocation, or the
\* freed block is still intact), or whatever the block holds by then.
DanglingReads == {"intact", "zero", "total"}
DanglingSum(dangling, total, stale) ==
    CASE dangling = "intact" -> stale
      [] dangling = "zero" -> Zero
      [] dangling = "total" -> total

\* The node ceiling check of DTree::reset left out, see CeilingHit.
CeilingNever(size) == FALSE

\* m_nodes.size() > std::numeric_limits<uint16_t>::max() (line 703)
CeilingHit(size) == size > NodeIndexMax

\* One slot i of the loop body of DTree::reset (lines 683-709).
ResetSlot(previousDTree, newMaxDepth, subdivisionThreshold, dangling, sNode, acc, i) ==
    IF acc.broke THEN acc
    ELSE
    LET total == previousDTree.sum
        otherNode == IF sNode.otherIsPrev
                     THEN NodeAt(previousDTree.nodes, sNode.otherNodeIndex)
                     ELSE NodeAt(acc.nodes, sNode.otherNodeIndex)
        read(dang) == IF dang THEN DanglingSum(dangling, total, otherNode.sum[i])
                      ELSE otherNode.sum[i]
        s1 == read(acc.dang)
        n1 == SetNodeAt(acc.nodes, sNode.nodeIndex,
                        setSum(NodeAt(acc.nodes, sNode.nodeIndex), i, s1))
        fraction == IF FloatMinExceeded(total) THEN RDiv(s1, total)
                    ELSE PowQuarter(sNode.depth)
        size == Len(n1)
    IN  IF (sNode.depth < newMaxDepth /\ RLt(subdivisionThreshold, fraction))
           \/ ~isLeaf(otherNode, i)
        THEN LET pushed == IF ~isLeaf(otherNode, i)
                           THEN [nodeIndex |-> size, otherNodeIndex |-> otherNode.child[i],
                                 otherIsPrev |-> TRUE, depth |-> sNode.depth + 1]
                           ELSE [nodeIndex |-> size, otherNodeIndex |-> size,
                                 otherIsPrev |-> FALSE, depth |-> sNode.depth + 1]
                 dang2 == acc.dang \/ ~sNode.otherIsPrev
                 n2 == Append(SetNodeAt(n1, sNode.nodeIndex,
                                        setChild(NodeAt(n1, sNode.nodeIndex), i, size)),
                              setSumAll(QuadTreeNode, RDiv(read(dang2), Four)))
             IN  IF CeilingHit(Len(n2))
                 THEN [acc EXCEPT !.nodes = n2, !.stack = <<>>, !.broke = TRUE,
                                  !.dang = dang2, !.warnings = @ + 1]
                 ELSE [acc EXCEPT !.nodes = n2, !.stack = Append(@, pushed),
                                  !.dang = dang2]
        ELSE [acc EXCEPT !.nodes = n1]

RECURSIVE ResetLoop(_, _, _, _, _)
ResetLoop(previousDTree, newMaxDepth, subdivisionThreshold, dangling, acc) ==
    IF acc.stack = <<>> THEN acc
    ELSE LET sNode == Top(acc.stack)
             a0 == [acc EXCEPT !.stack = Pop(@), !.broke = FALSE, !.dang = FALSE,
                               !.maxDepth = IF sNode.depth > @ THEN sNode.depth ELSE @]
             S(a, i) == ResetSlot(previousDTree, newMaxDepth, subdivisionThreshold,
                                  dangling, sNode, a, i)
         IN  ResetLoop(previousDTree, newMaxDepth, subdivisionThreshold, dangling,
                       S(S(S(S(a0, 0), 1), 2), 3))

\* DTree::reset(previousDTree, newMaxDepth, subdivisionThreshold): the
\* refined topology of previousDTree with all sums zero.  `warnings` counts
\* the "hit maximum children count" log lines.
DTreeReset(previousDTree, newMaxDepth, subdivisionThreshold, dangling) ==
    LET acc == ResetLoop(previousDTree, newMaxDepth, subdivisionThreshold, dangling,
                 [nodes |-> <<QuadTreeNode>>,
                  stack |-> <<[nodeIndex |-> 0, otherNodeIndex |-> 0,
                               otherIsPrev |-> TRUE, depth |-> 1]>>,
                  maxDepth |-> 0, broke |-> FALSE, dang |-> FALSE, warnings |-> 0])
    IN  [tree |-> [nodes |-> [k \in 1..Len(acc.nodes) |-> setSumAll(acc.nodes[k], Zero)],
                   sum |-> Zero, statisticalWeight |-> Zero, maxDepth |-> acc.maxDepth],
         warnings |-> acc.warnings]

----------------------------------------------------------------------------
(* DTreeWrapper *)

\* DTreeWrapper(): four empty DTrees, counters zero, m_rejPdfPair (1, 1),
\* min_nzradiance at the float maximum.
DTreeWrapper ==
    [building |-> DTree, sampling |-> DTree, previous |-> DTree, augmented |-> DTree,
     current_samples |-> 0, req_augmented_samples |-> 0,
     weighted_previous_samples |-> Zero, B |-> Zero,
     m_rejPdfPair |-> <<One, One>>, min_nzradiance |-> FloatMax]

\* DTreeWrapper::record that splats into the sampling tree, see WrapperRecord.
WrapperRecordIntoSampling(wr, rec) ==
    IF ~rec.isDelta
    THEN LET irradiance == RDiv(rec.radiance, rec.woPdf)
         IN  [wr EXCEPT
                !.min_nzradiance = IF RLt(Zero, irradiance) THEN RMin(@, irradiance) ELSE @,
                !.sampling = recordIrradiance(@, rec.d, irradiance, rec.statisticalWeight)]
    ELSE wr

\* DTreeWrapper::record with bsdfSamplingFractionLoss == ENone; rec.d is the
\* direction's canonical point.
WrapperRecord(wr, rec) ==
    IF ~rec.isDelta
    THEN LET irradiance == RDiv(rec.radiance, rec.woPdf)
         IN  [wr EXCEPT
                !.min_nzradiance = IF RLt(Zero, irradiance) THEN RMin(@, irradiance) ELSE @,
                !.building = recordIrradiance(@, rec.d, irradiance, rec.statisticalWeight)]
    ELSE wr

\* The leaf floor DTreeWrapper::build applies (lines 1059-1063).
BuildFloor(min_nzradiance) ==
    LET m == IF RLt(RInt(100000), min_nzradiance) THEN RMul(EPSILON, RInt(2))
             ELSE min_nzradiance
    IN  RMax(RMul(EPSILON, RInt(2)), RDiv(m, RInt(5)))

\* B = augmented.buildAugmented(...) / buildUnmajorizedAugmented(...): the
\* call rebuilds the augmented tree and its value is stored in B.
WrapperAugment(wr, aug) == [wr EXCEPT !.augmented = aug.tree, !.B = aug.ret]

\* DTreeWrapper::build once the building tree has been floored and built
\* (lines 1066-1082).
WrapperBuildWith(wr, augment, augmentReweight, isBuilt, building1) ==
    LET previous1 == wr.sampling
        wr1 == WrapperAugment(wr,
                 IF (augment \/ augmentReweight) /\ isBuilt
                 THEN IF augment THEN buildAugmented(wr.augmented, wr.sampling, building1)
                      ELSE buildUnmajorizedAugmented(wr.augmented, wr.sampling, building1)
                 ELSE [tree |-> wr.augmented, ret |-> wr.B])
    IN  [wr1 EXCEPT !.previous = previous1, !.building = building1,
                    !.req_augmented_samples = 0, !.current_samples = 0,
                    !.weighted_previous_samples = Zero,
                    !.sampling = building1,
                    !.m_rejPdfPair = getMajorizingFactor(previous1, building1),
                    !.min_nzradiance = FloatMax]

\* DTreeWrapper::build that assigns sampling before it saves previous, see
\* WrapperBuild.
WrapperBuildLatePrevious(wr, augment, augmentReweight, isBuilt) ==
    LET building1 == DTreeBuild(DTreeSetMinimumIrr(wr.building, BuildFloor(wr.min_nzradiance)))
    IN  [wr EXCEPT !.building = building1, !.sampling = building1, !.previous = building1,
                   !.req_augmented_samples = 0, !.current_samples = 0,
                   !.weighted_previous_samples = Zero,
                   !.m_rejPdfPair = getMajorizingFactor(building1, building1),
                   !.min_nzradiance = FloatMax]

\* DTreeWrapper::build(augment, augmentReweight, isBuilt)
WrapperBuild(wr, augment, augmentReweight, isBuilt) ==
    WrapperBuildWith(wr, augment, augmentReweight, isBuilt,
        DTreeBuild(DTreeSetMinimumIrr(wr.building, BuildFloor(wr.min_nzradiance))))

\* DTreeWrapper::reset(maxDepth, subdivisionThreshold)
WrapperReset(wr, maxDepth, subdivisionThreshold, dangling) ==
    [wr EXCEPT !.building = DTreeReset(wr.sampling, maxDepth, subdivisionThreshold,
                                       dangling).tree]

----------------------------------------------------------------------------
(* Spec: one DTreeWrapper through the iterations of a run.  Each iteration
   is resetSDTree (reset), sample collection (record) and buildSDTree
   (build), in the order renderSPP runs them. *)

\* The configurations of a run: dTreeThreshold (default 0.01, or a coarse
\* one), the maxDepth handed to reset, and the augment flags (m_augment, or
\* m_rejectAugment / m_reweightAugment, or neither).  At threshold 7/100 the
\* first reset stops at depth 2, and a later one subdivides a leaf that
\* holds more than 28% of the energy twice.
Configs ==
    {[threshold |-> <<1, 100>>, maxDepth |-> MaxDepthArg - 1, mode |-> "augment"],
     [threshold |-> <<3, 10>>, maxDepth |-> MaxDepthArg - 2, mode |-> "augment"],
     [threshold |-> <<3, 10>>, maxDepth |-> MaxDepthArg - 2, mode |-> "raugment"],
     [threshold |-> <<7, 100>>, maxDepth |-> MaxDepthArg, mode |-> "none"],
     [threshold |-> <<1, 100>>, maxDepth |-> 1, mode |-> "none"]}
\* The DTreeRecords handed to record: d is the canonical point of the
\* direction; radiance 1 or 5 at woPdf 1/2, a record without radiance, and
\* a delta record.
Records ==
    {[d |-> <<0, 0>>, radiance |-> One, woPdf |-> <<1, 2>>,
      statisticalWeight |-> One, isDelta |-> FALSE],
     [d |-> <<0, 0>>, radiance |-> RInt(5), woPdf |-> <<1, 2>>,
      statisticalWeight |-> One, isDelta |-> FALSE],
     [d |-> <<3, 0>>, radiance |-> One, woPdf |-> <<1, 2>>,
      statisticalWeight |-> One, isDelta |-> FALSE],
     [d |-> <<0, 3>>, radiance |-> Zero, woPdf |-> <<1, 2>>,
      statisticalWeight |-> One, isDelta |-> FALSE],
     [d |-> <<0, 0>>, radiance |-> One, woPdf |-> <<1, 2>>,
      statisticalWeight |-> One, isDelta |-> TRUE]}

Idle == "idle"

\* History: what the wrapper held when build was entered, and the three
\* trees that sample collection only reads, as build left them.
Snapshot(wr) == [sampling |-> wr.sampling, building |-> wr.building,
                 min_nzradiance |-> wr.min_nzradiance]
Frozen(wr) == [sampling |-> wr.sampling, previous |-> wr.previous,
               augmented |-> wr.augmented]

InitWrapper ==
    /\ w = DTreeWrapper
    /\ \E cfg \in Configs :
         env = [isBuilt |-> FALSE, phase |-> "reset", iter |-> 0, nrec |-> 0,
                threshold |-> cfg.threshold, maxDepth |-> cfg.maxDepth,
                mode |-> cfg.mode, lastOp |-> "init", warnings |-> 0,
                pre |-> Snapshot(DTreeWrapper), frozen |-> Frozen(DTreeWrapper)]

Init ==
    /\ InitWrapper
    /\ shared = Idle /\ thr = Idle /\ ctl = Idle /\ rp = Idle /\ stree = Idle /\ adam = Idle /\ lk = Idle /\ buf = Idle /\ cw = Idle /\ pth = Idle

\* resetSDTree: dTree->reset(maxDepth, m_dTreeThreshold) on the wrapper.
Reset ==
    /\ env.phase = "reset"
    /\ env.iter < MaxIters
    /\ \E dangling \in DanglingReads :
         /\ w' = WrapperReset(w, env.maxDepth, env.threshold, dangling)
         /\ env' = [env EXCEPT !.phase = "collect", !.lastOp = "reset",
                      !.warnings = DTreeReset(w.sampling, env.maxDepth, env.threshold,
                                              dangling).warnings]
    /\ UNCHANGED <<pth, cw, buf, lk, adam, stree, shared, thr, ctl, rp>>

\* A vertex commit of the path tracer or of a replay routine: dTree->record(rec).
Record ==
    /\ env.phase = "collect"
    /\ env.nrec < MaxRecords
    /\ \E rec \in Records :
         /\ w' = WrapperRecord(w, rec)
         /\ env' = [env EXCEPT !.nrec = @ + 1, !.lastOp = "record"]
    /\ UNCHANGED <<pth, cw, buf, lk, adam, stree, shared, thr, ctl, rp>>

\* buildSDTree: dTree->build(augment, raugment, m_isBuilt), then m_isBuilt = true.
Build ==
    /\ env.phase = "collect"
    /\ w' = WrapperBuild(w, env.mode = "augment", env.mode = "raugment", env.isBuilt)
    /\ env' = [env EXCEPT !.phase = "reset", !.iter = @ + 1, !.isBuilt = TRUE,
                 !.lastOp = "build", !.pre = Snapshot(w), !.frozen = Frozen(w')]
    /\ UNCHANGED <<pth, cw, buf, lk, adam, stree, shared, thr, ctl, rp>>

Next == Reset \/ Record \/ Build

Spec == Init /\ [][Next]_vars

----------------------------------------------------------------------------
(* Properties of the wrapper checked under Spec *)

\* The leaves of a quadtree, each as the digit sequence that leads to it.
RECURSIVE LeafPaths(_, _, _)
LeafPaths(nodes, idx, prefix) ==
    UNION {IF isLeaf(NodeAt(nodes, idx), i) THEN {Append(prefix, i)}
           ELSE LeafPaths(nodes, NodeAt(nodes, idx).child[i], Append(prefix, i))
           : i \in Slots}
Leaves(t) == LeafPaths(t.nodes, 0, <<>>)

\* DTree::pdf at a leaf, and averaged over the cell of another tree's leaf
\* (the descent stops at the cell's level).
LeafPdf(t, p) == DTreePdf4Pi(t, p, -1, 0)
CellPdf(t, p) == DTreePdf4Pi(t, p, Len(p) - 1, 0)

\* The integral of DTree::pdf over the sphere: each leaf's pdf times the
\* share (1/4)^depth of the sphere that the leaf covers.
RECURSIVE PdfMass(_, _, _)
PdfMass(t, idx, prefix) ==
    LET node == NodeAt(t.nodes, idx)
        term(i) == IF isLeaf(node, i)
                   THEN RMul(LeafPdf(t, Append(prefix, i)), PowQuarter(Len(prefix) + 1))
                   ELSE PdfMass(t, node.child[i], Append(prefix, i))
    IN  RAdd(RAdd(term(0), term(1)), RAdd(term(2), term(3)))

\* Both trees of the pair have been through DTree::build.
BothBuilt == env.iter >= 2 /\ env.lastOp = "build"

Validates(curr, prev) ==
    LET pair == getMajorizingFactor(curr, prev)
    IN  validateMajorizingFactor(curr, prev, RDiv(pair[2], pair[1]))

\* C1: for two built trees curr and prev, the pair (p_curr, p_prev) that
\* curr.getMajorizingFactor(prev) returns gives a factor A = p_prev / p_curr
\* that curr.validateMajorizingFactor(prev, A) accepts.  The pairs are the
\* ones the program forms: (previous, sampling) in DTreeWrapper::build and
\* (newDist, oldDist) in buildAugmented.
C1_FactorValidates ==
    BothBuilt => Validates(w.previous, w.sampling) /\ Validates(w.sampling, w.previous)

\* The trees of the wrapper that have been built.
BuiltTrees == {w.sampling, w.previous, w.augmented}

\* C2: for a built tree of positive statistical weight, the leaf pdfs times
\* the leaves' solid angles add up to 1.
C2_PdfNormalised ==
    \A t \in BuiltTrees :
        RLt(Zero, t.statisticalWeight) => PdfMass(t, 0, <<>>) = One
C2_Witness ==
    /\ env.lastOp = "build"
    /\ RLt(Zero, w.sampling.statisticalWeight)
    /\ numNodes(w.sampling) > 1
    /\ PdfMass(w.sampling, 0, <<>>) = One

\* The factor buildAugmented used in the last build, and the density the
\* augmented tree is to follow at the cell of leaf p.
LastA == MajorizingA(getMajorizingFactor(w.sampling, w.previous))
AugTarget(p) == computeAugmentedPdf(CellPdf(w.previous, p), CellPdf(w.sampling, p), LastA)
AugmentedBuilt ==
    /\ BothBuilt
    /\ env.mode = "augment"
    /\ ~RLt(RAbs(RSub(LastA, One)), EPSILON)
    /\ RLt(Zero, w.previous.statisticalWeight)
    /\ RLt(Zero, w.augmented.statisticalWeight)

\* C3: when |A - 1| >= EPSILON, the pdf of the tree buildAugmented(old, new)
\* leaves is, at every leaf, one common constant times
\* max(A * pdf_new - pdf_old, 0) / (A - 1).
C3_AugmentedProportional ==
    AugmentedBuilt =>
        \A p, q \in Leaves(w.augmented) :
            RMul(LeafPdf(w.augmented, p), AugTarget(q))
                = RMul(LeafPdf(w.augmented, q), AugTarget(p))

\* The leaves the refinement rule of DTree::reset prescribes below one node:
\* `sums` and `children` are the node's four slot energies and its children
\* in the previous tree (0 for a leaf slot, and for every slot of a node the
\* refinement created).
RECURSIVE RuleLeaves(_, _, _, _, _, _, _)
RuleLeaves(previousDTree, newMaxDepth, subdivisionThreshold, sums, children, depth, prefix) ==
    UNION {LET fraction == IF FloatMinExceeded(previousDTree.sum)
                           THEN RDiv(sums[i], previousDTree.sum)
                           ELSE PowQuarter(depth)
           IN  IF children[i] # 0
               THEN RuleLeaves(previousDTree, newMaxDepth, subdivisionThreshold,
                               NodeAt(previousDTree.nodes, children[i]).sum,
                               NodeAt(previousDTree.nodes, children[i]).child,
                               depth + 1, Append(prefix, i))
               ELSE IF depth < newMaxDepth /\ RLt(subdivisionThreshold, fraction)
               THEN RuleLeaves(previousDTree, newMaxDepth, subdivisionThreshold,
                               [j \in Slots |-> RDiv(sums[i], Four)],
                               [j \in Slots |-> 0],
                               depth + 1, Append(prefix, i))
               ELSE {Append(prefix, i)}
           : i \in Slots}

\* C25: after a reset that does not hit the node ceiling the building tree
\* has exactly the topology of the refinement rule applied to the previous
\* (sampling) tree, and all its sums are zero.
C25_ResetFollowsRule ==
    env.lastOp = "reset" /\ ~CeilingHit(numNodes(w.building)) =>
        /\ Leaves(w.building) =
               RuleLeaves(w.sampling, env.maxDepth, env.threshold,
                          NodeAt(w.sampling.nodes, 0).sum,
                          NodeAt(w.sampling.nodes, 0).child, 1, <<>>)
        /\ w.building.sum = Zero
        /\ \A k \in 1..numNodes(w.building) :
               \A i \in Slots : w.building.nodes[k].sum[i] = Zero

\* The last build ran buildAugmented on built trees and found |A - 1| below
\* EPSILON.
AugmentedSkipped ==
    /\ BothBuilt
    /\ env.mode = "augment"
    /\ RLt(RAbs(RSub(LastA, One)), EPSILON)

\* C24: when buildAugmented finds |A - 1| < EPSILON, B is 0 and the
\* augmented tree is empty afterwards: one root node with four zero sums,
\* zero statistical weight and zero integral.
C24_SkippedAugmentedEmpty ==
    AugmentedSkipped =>
        /\ w.B = Zero
        /\ w.augmented.nodes = <<QuadTreeNode>>
        /\ w.augmented.statisticalWeight = Zero
        /\ computeIntegral(w.augmented) = Zero

\* Every non-leaf slot of the tree holds the sum of its child's four sums.
ChildSumsConsistent(t) ==
    \A k \in 1..Len(t.nodes) : \A i \in Slots :
        ~isLeaf(t.nodes[k], i) => t.nodes[k].sum[i] = SumOf(NodeAt(t.nodes, t.nodes[k].child[i]))

\* C4: after DTree::build every non-leaf slot's sum is the sum of the four
\* sums of the child it points to, whatever topology reset produced and
\* whatever was recorded before the build.
C4_SumsConsistent == \A t \in BuiltTrees : ChildSumsConsistent(t)
C4_Witness ==
    /\ env.lastOp = "build"
    /\ RLt(EPSILON, w.sampling.sum)
    /\ \E k \in 2..Len(w.sampling.nodes) : \E i \in Slots :
           /\ ~isLeaf(w.sampling.nodes[k], i)
           /\ RLt(EPSILON, w.sampling.nodes[k].sum[i])

AllTrees == {w.building, w.sampling, w.previous, w.augmented}

\* C5 as stated: no DTree ever holds more nodes than the uint16 maximum.
C5_AtMostIndexMax == \A t \in AllTrees : numNodes(t) <= NodeIndexMax

\* C5: no DTree ever holds more than one node beyond the uint16 maximum
\* (the check follows the append), the reset that hits the ceiling included.
C5_AtMostIndexMaxPlusOne == \A t \in AllTrees : numNodes(t) <= NodeIndexMax + 1
C5_Witness == env.warnings > 0 /\ numNodes(w.building) = NodeIndexMax + 1

\* C8: between builds, a record call leaves sampling, previous and
\* augmented as the last build left them; of the four trees only building
\* changes.
C8_SamplingReadOnly == env.lastOp = "record" => Frozen(w) = env.frozen
C8_Witness ==
    /\ env.lastOp = "record"
    /\ env.iter >= 1
    /\ RLt(Zero, w.building.statisticalWeight)
    /\ w.building # w.sampling

\* C9: after DTreeWrapper::build, previous is the sampling tree from before
\* the call, sampling is the building tree floored and built, and
\* m_rejPdfPair is previous.getMajorizingFactor(sampling).
C9_BuildRotates ==
    env.lastOp = "build" =>
        /\ w.previous = env.pre.sampling
        /\ w.sampling = DTreeBuild(DTreeSetMinimumIrr(env.pre.building,
                                                      BuildFloor(env.pre.min_nzradiance)))
        /\ w.m_rejPdfPair = getMajorizingFactor(w.previous, w.sampling)
C9_Witness ==
    /\ env.lastOp = "build"
    /\ env.iter >= 2
    /\ w.previous # w.sampling
    /\ w.m_rejPdfPair # <<One, One>>

----------------------------------------------------------------------------
(* SpecAtomic: threads of the render pass call DTree::recordIrradiance on
   one shared building tree.  Every load and every compare_exchange_weak of
   addToAtomicFloat is a step of its own. *)

Threads == 1..NumThreads

\* compare_exchange that stores without comparing, see compare_exchange_weak.
compare_exchange_blind(var, current, desired) ==
    [ok |-> TRUE, var |-> desired, current |-> current]

\* std::atomic<Float>::compare_exchange_weak(current, desired): the store
\* happens only if var still holds current; a failure loads var into
\* current.  (A spurious failure on an equal value changes nothing.)
compare_exchange_weak(var, current, desired) ==
    IF var = current THEN [ok |-> TRUE, var |-> desired, current |-> current]
    ELSE [ok |-> FALSE, var |-> var, current |-> var]

\* The tree the threads share: the root with slot 0 subdivided, as reset
\* leaves it, all sums zero.
SharedTree == [DTree EXCEPT !.nodes = <<setChild(QuadTreeNode, 0, 1), QuadTreeNode>>]

\* Arguments of recordIrradiance: point, irradiance, statisticalWeight.
AtomicRecords ==
    {[p |-> <<0, 0>>, irradiance |-> One, statisticalWeight |-> One],
     [p |-> <<0, 0>>, irradiance |-> RInt(2), statisticalWeight |-> One],
     [p |-> <<3, 0>>, irradiance |-> One, statisticalWeight |-> RInt(2)],
     [p |-> <<0, 1>>, irradiance |-> Zero, statisticalWeight |-> One]}

NoRecord == [p |-> <<>>, irradiance |-> Zero, statisticalWeight |-> Zero]

InitAtomic ==
    /\ shared = [tree |-> SharedTree, sequential |-> SharedTree, issued |-> 0,
                 contended |-> FALSE]
    /\ thr = [t \in Threads |-> [pc |-> "idle", rec |-> NoRecord, current |-> Zero]]
    /\ w = Idle /\ env = Idle /\ ctl = Idle /\ rp = Idle /\ stree = Idle /\ adam = Idle /\ lk = Idle /\ buf = Idle /\ cw = Idle /\ pth = Idle

\* A thread enters recordIrradiance(p, irradiance, statisticalWeight);
\* `sequential` is the tree the same calls give when run one after another.
BeginRecord(t) ==
    /\ thr[t].pc = "idle"
    /\ shared.issued < MaxRecords
    /\ \E rec \in AtomicRecords :
         /\ thr' = [thr EXCEPT ![t] = [pc |-> "weight_load", rec |-> rec, current |-> Zero]]
         /\ shared' = [shared EXCEPT
                         !.issued = @ + 1,
                         !.sequential = recordIrradiance(@, rec.p, rec.irradiance,
                                                         rec.statisticalWeight)]
    /\ UNCHANGED <<pth, cw, buf, lk, adam, stree, w, env, ctl, rp>>

\* addToAtomicFloat(m_atomic.statisticalWeight, statisticalWeight): var.load()
LoadWeight(t) ==
    /\ thr[t].pc = "weight_load"
    /\ thr' = [thr EXCEPT ![t].pc = "weight_cas",
                          ![t].current = shared.tree.statisticalWeight]
    /\ UNCHANGED <<pth, cw, buf, lk, adam, stree, shared, w, env, ctl, rp>>

\* ... and one round of its compare_exchange_weak loop.
CasWeight(t) ==
    /\ thr[t].pc = "weight_cas"
    /\ LET r == compare_exchange_weak(shared.tree.statisticalWeight, thr[t].current,
                                      RAdd(thr[t].current, thr[t].rec.statisticalWeight))
       IN  /\ shared' = [shared EXCEPT !.tree.statisticalWeight = r.var,
                                       !.contended = @ \/ ~r.ok]
           /\ thr' = [thr EXCEPT
                        ![t].current = r.current,
                        ![t].pc = IF ~r.ok THEN "weight_cas"
                                  ELSE IF RLt(Zero, thr[t].rec.irradiance) THEN "sum_load"
                                  ELSE "idle"]
    /\ UNCHANGED <<pth, cw, buf, lk, adam, stree, w, env, ctl, rp>>

\* The atomic the record descends to: m_sum[index] of the leaf under p.
LeafSum(tree, p) ==
    LET at == LeafAt(tree.nodes, 0, p) IN NodeAt(tree.nodes, at[1]).sum[at[2]]
SetLeafSum(tree, p, val) ==
    LET at == LeafAt(tree.nodes, 0, p)
    IN  [tree EXCEPT !.nodes = SetNodeAt(@, at[1], setSum(NodeAt(@, at[1]), at[2], val))]

\* QuadTreeNode::record at the leaf: addToAtomicFloat(m_sum[index], irradiance
\* * statisticalWeight), the load ...
LoadSum(t) ==
    /\ thr[t].pc = "sum_load"
    /\ thr' = [thr EXCEPT ![t].pc = "sum_cas",
                          ![t].current = LeafSum(shared.tree, thr[t].rec.p)]
    /\ UNCHANGED <<pth, cw, buf, lk, adam, stree, shared, w, env, ctl, rp>>

\* ... and one round of the compare_exchange_weak loop.
CasSum(t) ==
    /\ thr[t].pc = "sum_cas"
    /\ LET val == RMul(thr[t].rec.irradiance, thr[t].rec.statisticalWeight)
           r == compare_exchange_weak(LeafSum(shared.tree, thr[t].rec.p), thr[t].current,
                                      RAdd(thr[t].current, val))
       IN  /\ shared' = [shared EXCEPT !.tree = SetLeafSum(@, thr[t].rec.p, r.var),
                                       !.contended = @ \/ ~r.ok]
           /\ thr' = [thr EXCEPT ![t].current = r.current,
                                 ![t].pc = IF r.ok THEN "idle" ELSE "sum_cas"]
    /\ UNCHANGED <<pth, cw, buf, lk, adam, stree, w, env, ctl, rp>>

NextAtomic ==
    \E t \in Threads :
        BeginRecord(t) \/ LoadWeight(t) \/ CasWeight(t) \/ LoadSum(t) \/ CasSum(t)

SpecAtomic == InitAtomic /\ [][NextAtomic]_vars

Quiescent == \A t \in Threads : thr[t].pc = "idle"

\* C6: concurrent record calls lose no additive update: once every call has
\* returned, each leaf sum and statisticalWeight hold what the same calls
\* give one after another.
C6_NoLostUpdate == Quiescent => shared.tree = shared.sequential
C6_Witness ==
    /\ Quiescent
    /\ shared.contended
    /\ shared.issued = MaxRecords
    /\ LeafSum(shared.tree, <<0, 0>>) = RInt(3)
    /\ shared.tree = shared.sequential

----------------------------------------------------------------------------
(* SpecCtl: the iteration controller, renderSPP or renderTime, with
   performRenderPasses unrolled into one step per render process waited
   for.  The clock counts half seconds since m_startTime. *)

RECURSIVE Pow2(_)
Pow2(n) == IF n <= 0 THEN 1 ELSE 2 * Pow2(n - 1)

Min(a, b) == IF a < b THEN a ELSE b

\* m_sppPerPass values of the runs: 4 (the default), and one large enough
\* for sppRendered > 256 after one pass.
SppPerPassValues == {4, 300}

\* (int)std::ceil(sampleCount / (Float)m_sppPerPass)
CeilDiv(sampleCount, sppPerPass) == (sampleCount + sppPerPass - 1) \div sppPerPass

CtlConfigs ==
    {[budgetType |-> "spp", budget |-> spp * n - r, sppPerPass |-> spp, autoBudget |-> ab]
        : spp \in SppPerPassValues, n \in 1..MaxPasses, r \in 0..1, ab \in BOOLEAN}
    \cup
    {[budgetType |-> "seconds", budget |-> sec, sppPerPass |-> spp, autoBudget |-> ab]
        : spp \in SppPerPassValues, sec \in 1..MaxSeconds, ab \in BOOLEAN}

\* The controller on entry to renderSPP / renderTime in the first render()
\* of the integrator (render: lines 2829-2882): m_isBuilt has its member
\* initialiser (line 3733).  run counts the render() calls and builtThisRun
\* says whether buildSDTree has completed in the current one.
CtlStart(cfg) ==
    [budgetType |-> cfg.budgetType, budget |-> cfg.budget,
     sppPerPass |-> cfg.sppPerPass, autoBudget |-> cfg.autoBudget,
     nPasses |-> IF cfg.budgetType = "spp"
                 THEN CeilDiv(cfg.budget, cfg.sppPerPass) ELSE 0,
     pc |-> "loop", result |-> TRUE,
     m_iter |-> 0, m_passesRendered |-> 0, m_passesRenderedThisIter |-> 0,
     m_isFinalIter |-> FALSE, m_isBuilt |-> FALSE,
     clock |-> 0, elapsedSeconds |-> 0, startIter |-> 0, sppRendered |-> 0,
     passesThisIteration |-> 0, remainingPasses |-> 0,
     numPasses |-> 0, passesRenderedLocal |-> 0, inFinal |-> FALSE,
     samplingIter |-> -1, abortedIters |-> {}, failedIters |-> {},
     last |-> "init", run |-> 1, builtThisRun |-> FALSE]

InitCtl ==
    /\ \E cfg \in CtlConfigs : ctl = CtlStart(cfg)
    /\ w = Idle /\ env = Idle /\ shared = Idle /\ thr = Idle /\ rp = Idle /\ stree = Idle /\ adam = Idle /\ lk = Idle /\ buf = Idle /\ cw = Idle /\ pth = Idle

\* A while condition that tests result only, see LoopCondition.
LoopConditionResultOnly(c) == c.result

\* The while condition of renderSPP (line 2611) and of renderTime (line 2756).
LoopCondition(c) ==
    /\ c.result
    /\ IF c.budgetType = "spp" THEN c.m_passesRendered < c.nPasses
       ELSE c.elapsedSeconds < 2 * c.budget

PassesThisIterationNoFold(remainingPasses, m_iter) == Min(remainingPasses, Pow2(m_iter))

\* passesThisIteration of renderSPP (lines 2615-2625): 2^m_iter, or all that
\* remains once the next iteration could not double again.
PassesThisIterationSPP(remainingPasses, m_iter) ==
    LET p == Min(remainingPasses, Pow2(m_iter))
    IN  IF remainingPasses - p < 2 * p THEN remainingPasses ELSE p

\* The head of the loop body up to the call of performRenderPasses:
\* resetSDTree, the replay of the retained paths, and the passes scheduled.
IterBegin ==
    /\ ctl.pc = "loop"
    /\ LoopCondition(ctl)
    /\ LET remaining == ctl.nPasses - ctl.m_passesRendered
           pti == IF ctl.budgetType = "spp"
                  THEN PassesThisIterationSPP(remaining, ctl.m_iter)
                  ELSE Pow2(ctl.m_iter)
       IN  ctl' = [ctl EXCEPT
                     !.pc = "passes", !.last = "begin",
                     !.sppRendered = ctl.m_passesRendered * ctl.sppPerPass,
                     !.remainingPasses = IF ctl.budgetType = "spp" THEN remaining ELSE @,
                     !.passesThisIteration = pti,
                     !.m_isFinalIter = IF ctl.budgetType = "spp" THEN pti >= remaining ELSE @,
                     !.startIter = ctl.clock,
                     !.numPasses = pti, !.passesRenderedLocal = 0, !.inFinal = FALSE]
    /\ UNCHANGED <<pth, cw, buf, lk, adam, stree, w, env, shared, thr, rp>>

\* The time a pass takes; in spp mode the clock is never read.
Ticks(c) == IF c.budgetType = "seconds" THEN 1..MaxTick ELSE {0}

\* performRenderPasses: sched->wait returns for a process that succeeded;
\* the counters advance, the seconds budget is compared, and the call
\* returns true when the passes are through or the budget is exceeded.
PassSucceeds ==
    /\ ctl.pc = "passes"
    /\ \E dt \in Ticks(ctl) :
         LET clock1 == ctl.clock + dt
             local1 == ctl.passesRenderedLocal + 1
             progress == clock1 \div 2
             shouldAbort == ctl.budgetType = "seconds" /\ progress > ctl.budget
             returns == shouldAbort \/ local1 = ctl.numPasses
             c1 == [ctl EXCEPT
                      !.clock = clock1, !.last = "pass",
                      !.m_passesRendered = @ + 1, !.m_passesRenderedThisIter = @ + 1,
                      !.passesRenderedLocal = local1,
                      !.abortedIters = IF shouldAbort /\ local1 < ctl.numPasses
                                       THEN @ \cup {ctl.m_iter} ELSE @]
         IN  ctl' = IF ~returns THEN c1
                    ELSE IF ~ctl.inFinal THEN [c1 EXCEPT !.pc = "post"]
                    ELSE IF ctl.budgetType = "spp" THEN [c1 EXCEPT !.pc = "build"]
                    ELSE IF clock1 < 2 * ctl.budget
                         THEN [c1 EXCEPT !.elapsedSeconds = clock1,
                                         !.passesRenderedLocal = 0]
                         ELSE [c1 EXCEPT !.elapsedSeconds = clock1, !.pc = "build"]
    /\ UNCHANGED <<pth, cw, buf, lk, adam, stree, w, env, shared, thr, rp>>

\* renderSPP and the first call in renderTime leave the loop when
\* performRenderPasses returns false; the break in renderTime's do-while
\* (line 2806) leaves only the do-while.
LeavesIteration(budgetType, inFinal) == ~(budgetType = "seconds" /\ inFinal)

\* performRenderPasses: the process waited for did not return ESuccess;
\* the call returns false.
PassFails ==
    /\ ctl.pc = "passes"
    /\ \E dt \in Ticks(ctl) :
         LET local1 == ctl.passesRenderedLocal + 1
             c1 == [ctl EXCEPT
                      !.clock = @ + dt, !.last = "fail", !.result = FALSE,
                      !.m_passesRendered = @ + 1, !.m_passesRenderedThisIter = @ + 1,
                      !.passesRenderedLocal = local1,
                      !.failedIters = @ \cup {ctl.m_iter},
                      !.abortedIters = IF local1 < ctl.numPasses
                                       THEN @ \cup {ctl.m_iter} ELSE @]
         IN  ctl' = IF LeavesIteration(ctl.budgetType, ctl.inFinal)
                    THEN [c1 EXCEPT !.pc = "done"]
                    ELSE [c1 EXCEPT !.pc = "build"]
    /\ UNCHANGED <<pth, cw, buf, lk, adam, stree, w, env, shared, thr, rp>>

\* After the iteration's passes: the automatic budget may declare the
\* iteration final and render on (lines 2691-2705 and 2794-2813).
\* varWorse stands for currentVarAtEnd > lastVarAtEnd, false in iteration 0
\* where lastVarAtEnd is infinite.
Post ==
    /\ ctl.pc = "post"
    /\ \E varWorse \in BOOLEAN :
         /\ ctl.m_iter = 0 => ~varWorse
         /\ LET pti == ctl.passesThisIteration
                trusted == ctl.sppRendered > 256 /\ varWorse
                remainingPasses == ctl.remainingPasses - pti
                secondsIter == ctl.clock - ctl.startIter
                remainingTime == 2 * ctl.budget - ctl.elapsedSeconds - secondsIter
                goFinal == IF ctl.budgetType = "spp"
                           THEN ctl.autoBudget /\ remainingPasses > 0
                                /\ (remainingPasses < pti \/ trusted)
                           ELSE ctl.autoBudget /\ remainingTime > 0
                                /\ (remainingTime < secondsIter \/ trusted)
                c1 == [ctl EXCEPT !.last = "post",
                         !.remainingPasses = IF ctl.budgetType = "spp"
                                             THEN remainingPasses ELSE @]
            IN  ctl' = IF goFinal
                       THEN [c1 EXCEPT !.m_isFinalIter = TRUE, !.inFinal = TRUE,
                               !.pc = "passes", !.passesRenderedLocal = 0,
                               !.numPasses = IF ctl.budgetType = "spp"
                                             THEN remainingPasses ELSE pti]
                       ELSE [c1 EXCEPT !.pc = "build"]
    /\ UNCHANGED <<pth, cw, buf, lk, adam, stree, w, env, shared, thr, rp>>

\* renderSPP builds unless the iteration is final (line 2707); renderTime
\* calls buildSDTree in every iteration (line 2815).
BuildsSDTree(budgetType, isFinalIter) == budgetType = "seconds" \/ ~isFinalIter

\* The tail of the loop body: buildSDTree, ++m_iter.
EndIter ==
    /\ ctl.pc = "build"
    /\ LET builds == BuildsSDTree(ctl.budgetType, ctl.m_isFinalIter)
       IN  ctl' = [ctl EXCEPT
                     !.pc = "loop", !.last = IF builds THEN "build" ELSE "skip",
                     !.samplingIter = IF builds THEN ctl.m_iter ELSE @,
                     !.m_isBuilt = @ \/ builds,
                     !.builtThisRun = @ \/ builds,
                     !.m_iter = @ + 1, !.m_passesRenderedThisIter = 0,
                     !.elapsedSeconds = IF ctl.budgetType = "seconds" THEN ctl.clock ELSE @]
    /\ UNCHANGED <<pth, cw, buf, lk, adam, stree, w, env, shared, thr, rp>>

\* The loop condition fails: renderSPP / renderTime return result.
Finish ==
    /\ ctl.pc = "loop"
    /\ ~LoopCondition(ctl)
    /\ ctl' = [ctl EXCEPT !.pc = "done", !.last = "finish"]
    /\ UNCHANGED <<pth, cw, buf, lk, adam, stree, w, env, shared, thr, rp>>

\* render() is called again on the same integrator: it makes a new STree
\* and sets m_iter, m_isFinalIter, m_passesRendered and m_startTime (lines
\* 2832-2870); it does not assign m_isBuilt.
RenderAgain ==
    /\ ctl.pc = "done"
    /\ ctl.run < MaxRuns
    /\ ctl' = [CtlStart(ctl) EXCEPT !.m_isBuilt = ctl.m_isBuilt, !.run = ctl.run + 1]
    /\ UNCHANGED <<pth, cw, buf, lk, adam, stree, w, env, shared, thr, rp>>

NextCtl ==
    IterBegin \/ PassSucceeds \/ PassFails \/ Post \/ EndIter \/ Finish \/ RenderAgain

SpecCtl == InitCtl /\ [][NextCtl]_vars

\* SpecSpp: renderSPP on its own with render passes that all succeed, for
\* every spp budget of CtlConfigs and for a budget of 0.  The controller is
\* one sequential thread and sched->wait returns for every process, so
\* a step that is enabled is taken: weak fairness on the steps.
SppConfigs ==
    {cfg \in CtlConfigs : cfg.budgetType = "spp"}
    \cup {[budgetType |-> "spp", budget |-> 0, sppPerPass |-> spp, autoBudget |-> ab]
             : spp \in SppPerPassValues, ab \in BOOLEAN}

InitSpp ==
    /\ \E cfg \in SppConfigs : ctl = CtlStart(cfg)
    /\ w = Idle /\ env = Idle /\ shared = Idle /\ thr = Idle /\ rp = Idle /\ stree = Idle /\ adam = Idle /\ lk = Idle /\ buf = Idle /\ cw = Idle /\ pth = Idle

NextSpp == IterBegin \/ PassSucceeds \/ Post \/ EndIter \/ Finish

SpecSpp == InitSpp /\ [][NextSpp]_vars /\ WF_vars(NextSpp)

\* C30: in spp mode with no failing pass the loop of renderSPP terminates
\* with m_passesRendered = nPasses, nPasses is the ceiling of budget /
\* sppPerPass, every call of performRenderPasses is for at least one pass,
\* and m_passesRendered never exceeds nPasses.
C30_SppLoopTerminates ==
    /\ <>(ctl.pc = "done" /\ ctl.result /\ ctl.m_passesRendered = ctl.nPasses)
    /\ [](/\ ctl.nPasses * ctl.sppPerPass >= ctl.budget
          /\ (ctl.nPasses - 1) * ctl.sppPerPass < ctl.budget
          /\ ctl.m_passesRendered <= ctl.nPasses
          /\ ctl.pc = "passes" => ctl.numPasses >= 1)
C30_Witness ==
    /\ ctl.budgetType = "spp" /\ ctl.pc = "done"
    /\ ctl.m_passesRendered = ctl.nPasses
    /\ ctl.m_iter >= 2
    /\ ctl.budget < ctl.nPasses * ctl.sppPerPass

\* C7: in both budget modes, when the passes of an iteration are aborted
\* before all the passes scheduled have completed (time budget exceeded or
\* a render process failed), build is not run for that iteration: the
\* sampling trees never hold the content of an aborted iteration.
C7_NoBuildAfterAbort == ctl.samplingIter \notin ctl.abortedIters

\* C23: in every render() run m_isBuilt is false until the first
\* buildSDTree of that run has completed, and true from then on.
C23_BuiltOnlyAfterBuild == ctl.m_isBuilt <=> ctl.builtThisRun

\* C22: in spp mode an iteration that ends without being final has rendered
\* exactly 2^m_iter passes, and the passes rendered while m_isFinalIter was
\* set are at least half of nPasses.
C22_FinalHalfBudget ==
    ctl.budgetType = "spp" /\ ctl.pc = "build"
        => IF ctl.m_isFinalIter
           THEN 2 * (IF ctl.inFinal THEN ctl.passesRenderedLocal
                     ELSE ctl.m_passesRenderedThisIter) >= ctl.nPasses
           ELSE ctl.m_passesRenderedThisIter = Pow2(ctl.m_iter)
C22_Witness ==
    /\ ctl.budgetType = "spp" /\ ctl.pc = "build"
    /\ ctl.inFinal /\ ctl.m_isFinalIter /\ ctl.m_iter = 1
    /\ ctl.passesRenderedLocal = 4 /\ ctl.nPasses = 7

\* C17: at the end of every iteration, in both budget modes, buildSDTree
\* (DTreeWrapper::build on every wrapper) has run if and only if
\* m_isFinalIter is false.
C17_BuildIffNotFinal ==
    ctl.pc = "loop" /\ ctl.last \in {"build", "skip"}
        => (ctl.last = "build" <=> ~ctl.m_isFinalIter)

----------------------------------------------------------------------------
(* SpecReplay: the replay routines over the retained paths.  One step is
   one iteration of a routine's parallel loop: one retained path replayed
   against the current SD-tree.  What the SD-tree returns for a vertex (the
   recomputed woPdf, the wrapper's majorizing pair and augmented multiplier)
   and the sampler's draw are inputs of the step. *)

Strategies == {"reweight", "reject", "rejectReweight", "rejectAugment",
               "reweightAugment", "augment"}

RVertex(woPdf, sc) == [woPdf |-> woPdf, sc |-> sc, bsdfPdf |-> <<1, 2>>]

\* The retained paths: the first from an earlier iteration, the second
\* retained by the passes of the iteration before the first replay
\* modelled.  radiance_records and nee_records hold the records' pos
\* (0-based).
RetainedPaths ==
    <<[path |-> <<RVertex(<<1, 2>>, One), RVertex(<<1, 2>>, One)>>,
       radiance_records |-> <<1>>, nee_records |-> <<0>>, active |-> TRUE],
      [path |-> <<RVertex(One, One)>>,
       radiance_records |-> <<0>>, nee_records |-> <<0>>, active |-> TRUE]>>

\* What a vertex meets during a replay: newWoPdf from computePdf (one value
\* below EPSILON) and the draw sampler->next1D().
Outcomes == [newWoPdf : {<<1, 1000000>>, <<1, 2>>, One}, u : {Zero, <<3, 4>>}]

\* The wrapper the vertices fall into, as the last build and the last
\* passes left it: m_rejPdfPair, current_samples and req_augmented_samples.
ReplayWrappers ==
    {[maxPdfPair |-> <<One, One>>, current_samples |-> 2, req_augmented_samples |-> 2],
     [maxPdfPair |-> <<<<1, 2>>, One>>, current_samples |-> 1, req_augmented_samples |-> 2]}

\* DTreeWrapper::getAugmentedMultiplier (lines 1100-1102).
getAugmentedMultiplier(wr) ==
    IF wr.current_samples < wr.req_augmented_samples
    THEN Rat(wr.current_samples, wr.req_augmented_samples)
    ELSE One

\* dTree->bsdfSamplingFraction() with the default fraction.
bsdfSamplingFraction == <<1, 2>>

Continue(v) == [terminated |-> FALSE, v |-> v]
Terminate(v) == [terminated |-> TRUE, v |-> v]

\* One vertex of reweightCurrentPaths (lines 2522-2534).
reweightCurrentPathsStep(v, o, wr) ==
    IF RLt(o.newWoPdf, EPSILON) THEN Terminate(v)
    ELSE Continue([v EXCEPT !.sc = RMul(@, RDiv(o.newWoPdf, v.woPdf)),
                            !.woPdf = o.newWoPdf])

\* One vertex of rejectCurrentPaths (lines 2103-2121).
rejectCurrentPathsStep(v, o, wr) ==
    LET bsf == bsdfSamplingFraction
        bsdfPdf == RMul(bsf, v.bsdfPdf)
        oldPdfBound == RAdd(bsdfPdf, RMul(RSub(One, bsf), wr.maxPdfPair[1]))
        newPdfBound == RAdd(bsdfPdf, RMul(RSub(One, bsf), wr.maxPdfPair[2]))
        c == RDiv(newPdfBound, RMax(oldPdfBound, EPSILON))
        acceptProb == RDiv(o.newWoPdf, RMul(c, v.woPdf))
        v1 == [v EXCEPT !.woPdf = o.newWoPdf]
    IN  IF RLt(acceptProb, o.u) THEN Terminate(v1) ELSE Continue(v1)

\* One vertex of rejectReweightHybrid (lines 2193-2207).
rejectReweightHybridStep(v, o, wr) ==
    LET acceptProb == RDiv(o.newWoPdf, v.woPdf)
        v1 == [v EXCEPT !.woPdf = o.newWoPdf]
    IN  IF RLt(acceptProb, o.u) THEN Terminate(v1)
        ELSE Continue([v1 EXCEPT !.sc = RMul(@, RMax(One, RDiv(o.newWoPdf, v.woPdf)))])

\* One vertex of reweightAugmentHybrid (lines 2274-2290).
reweightAugmentHybridStep(v, o, wr) ==
    IF RLt(o.newWoPdf, EPSILON) THEN Terminate(v)
    ELSE LET reweight == RDiv(o.newWoPdf, v.woPdf)
             sc1 == IF RLt(reweight, One) THEN RMul(v.sc, reweight) ELSE v.sc
         IN  Continue([v EXCEPT !.sc = RMul(sc1, getAugmentedMultiplier(wr)), !.woPdf = o.newWoPdf])

\* One vertex of performAugmentedSamples (lines 2359-2369).
performAugmentedSamplesStep(v, o, wr) ==
    IF RLt(o.newWoPdf, EPSILON) THEN Terminate(v)
    ELSE Continue([v EXCEPT !.woPdf = o.newWoPdf, !.sc = RMul(@, getAugmentedMultiplier(wr))])

\* One vertex of rejectAugmentHybrid (lines 2438-2451).
rejectAugmentHybridStep(v, o, wr) ==
    LET acceptProb == RDiv(o.newWoPdf, v.woPdf)
        v1 == [v EXCEPT !.woPdf = o.newWoPdf, !.sc = RMul(@, getAugmentedMultiplier(wr))]
    IN  IF RLt(acceptProb, o.u) THEN Terminate(v1) ELSE Continue(v1)

VertexStep(strategy, v, o, wr) ==
    CASE strategy = "reweight" -> reweightCurrentPathsStep(v, o, wr)
      [] strategy = "reject" -> rejectCurrentPathsStep(v, o, wr)
      [] strategy = "rejectReweight" -> rejectReweightHybridStep(v, o, wr)
      [] strategy = "rejectAugment" -> rejectAugmentHybridStep(v, o, wr)
      [] strategy = "reweightAugment" -> reweightAugmentHybridStep(v, o, wr)
      [] strategy = "augment" -> performAugmentedSamplesStep(v, o, wr)

\* The vertex loop of a routine from vertex j on: it stops at the first
\* vertex that terminates; `accepted` counts the vertices pushed.
RECURSIVE ReplayLoop(_, _, _, _, _)
ReplayLoop(strategy, path, outs, wr, j) ==
    IF j > Len(path) THEN [terminated |-> FALSE, path |-> path, accepted |-> Len(path)]
    ELSE LET step == VertexStep(strategy, path[j], outs[j], wr)
             path1 == [path EXCEPT ![j] = step.v]
         IN  IF step.terminated
             THEN [terminated |-> TRUE, path |-> path1, accepted |-> j - 1]
             ELSE ReplayLoop(strategy, path1, outs, wr, j + 1)

\* The statisticalWeight a routine hands to Vertex::commit for vertex j.
StatWeight(strategy, v, kickstart) ==
    IF strategy = "reject" THEN (IF kickstart THEN <<1, 2>> ELSE One)
    ELSE IF kickstart THEN RMul(v.sc, <<1, 2>>) ELSE v.sc

\* The records a replayed path commits: computeNee's (kickstart only, for
\* the nee records whose vertex exists) and one per vertex.
PathCommits(strategy, res, rpath, kickstart, replay, i) ==
    {[replay |-> replay, path |-> i, vertex |-> rpath.nee_records[k], nee |-> TRUE,
      statisticalWeight |-> RMul(res.path[rpath.nee_records[k] + 1].sc, <<1, 2>>)]
        : k \in {k \in 1..Len(rpath.nee_records) :
                     kickstart /\ rpath.nee_records[k] < res.accepted}}
    \cup
    {[replay |-> replay, path |-> i, vertex |-> j - 1, nee |-> FALSE,
      statisticalWeight |-> StatWeight(strategy, res.path[j], kickstart)]
        : j \in {j \in 1..res.accepted : RLt(Zero, res.path[j].woPdf)}}

\* The end of a loop body that commits what was accepted before the path
\* terminated, see FinishPath.
FinishPathCommitsAccepted(strategy, res, rpath, kickstart, replay, i) ==
    IF res.terminated
    THEN [rpath |-> [path |-> <<>>, radiance_records |-> <<>>, nee_records |-> <<>>,
                     active |-> FALSE],
          commits |-> PathCommits(strategy, res, rpath, kickstart, replay, i)]
    ELSE [rpath |-> [rpath EXCEPT !.path = res.path],
          commits |-> PathCommits(strategy, res, rpath, kickstart, replay, i)]

\* The end of a routine's loop body: a terminated path is deactivated and
\* its records are freed; any other path has its radiance and NEE
\* recomputed and its vertices committed.
FinishPath(strategy, res, rpath, kickstart, replay, i) ==
    IF res.terminated
    THEN [rpath |-> [path |-> <<>>, radiance_records |-> <<>>, nee_records |-> <<>>,
                     active |-> FALSE],
          commits |-> {}]
    ELSE [rpath |-> [rpath EXCEPT !.path = res.path],
          commits |-> PathCommits(strategy, res, rpath, kickstart, replay, i)]

InitReplay ==
    /\ \E strat \in Strategies, kick \in BOOLEAN, wr \in ReplayWrappers :
         rp = [strategy |-> strat, kickstart |-> kick, wrapper |-> wr,
               paths |-> RetainedPaths,
               m_augmentedStartPos |-> 1, replay |-> 0, todo |-> {},
               commits |-> {}, terminated |-> {},
               samplesAtStart |-> wr.current_samples, accepted |-> 0]
    /\ w = Idle /\ env = Idle /\ shared = Idle /\ thr = Idle /\ ctl = Idle /\ stree = Idle /\ adam = Idle /\ lk = Idle /\ buf = Idle /\ cw = Idle /\ pth = Idle

\* performAugmentedSamples and rejectAugmentHybrid visit the paths below
\* m_augmentedStartPos, the other routines all of m_samplePaths.
Visited(r) ==
    IF r.strategy \in {"augment", "rejectAugment"} THEN 1..r.m_augmentedStartPos
    ELSE 1..Len(r.paths)

\* The controller calls the configured routine; since the previous call it
\* has set m_augmentedStartPos to m_samplePaths->size() (line 2678).
StartReplay ==
    /\ rp.todo = {}
    /\ rp.replay < MaxReplays
    /\ LET r1 == [rp EXCEPT !.replay = @ + 1,
                            !.m_augmentedStartPos = IF rp.replay = 0 THEN @
                                                    ELSE Len(rp.paths)]
       IN  rp' = [r1 EXCEPT !.todo = Visited(r1)]
    /\ UNCHANGED <<pth, cw, buf, lk, adam, stree, w, env, shared, thr, ctl>>

\* One iteration of the routine's loop over the paths.
ReplayPath ==
    /\ \E i \in rp.todo :
         IF ~rp.paths[i].active
         THEN rp' = [rp EXCEPT !.todo = @ \ {i}]
         ELSE \E outs \in [1..Len(rp.paths[i].path) -> Outcomes] :
                LET res == ReplayLoop(rp.strategy, rp.paths[i].path, outs, rp.wrapper, 1)
                    fin == FinishPath(rp.strategy, res, rp.paths[i], rp.kickstart,
                                      rp.replay, i)
                IN  rp' = [rp EXCEPT
                             !.todo = @ \ {i},
                             !.paths[i] = fin.rpath,
                             !.commits = @ \cup fin.commits,
                             !.accepted = @ + res.accepted,
                             !.terminated = IF res.terminated
                                            THEN @ \cup {<<rp.replay, i>>} ELSE @]
    /\ UNCHANGED <<pth, cw, buf, lk, adam, stree, w, env, shared, thr, ctl>>

NextReplay == StartReplay \/ ReplayPath

SpecReplay == InitReplay /\ [][NextReplay]_vars

\* C10: in every replay strategy, a path that terminated during a replay is
\* inactive with empty path, nee_records and radiance_records, and that
\* replay (and every later one) committed no record of it.
C10_TerminatedPathDropped ==
    \A t \in rp.terminated :
        /\ ~rp.paths[t[2]].active
        /\ rp.paths[t[2]].path = <<>>
        /\ rp.paths[t[2]].nee_records = <<>>
        /\ rp.paths[t[2]].radiance_records = <<>>
        /\ \A c \in rp.commits : c.path = t[2] => c.replay < t[1]
C10_Witness ==
    \E t \in rp.terminated :
        /\ t[2] = 1
        /\ \E c \in rp.commits : c.path = 1 /\ c.replay < t[1]
        /\ ~rp.paths[1].active

\* C20: in a reject+augment or reweight+augment replay every accepted
\* vertex increments its wrapper's current_samples (incSampleCount), so the
\* wrapper's current_samples has grown by the number of vertices accepted.
C20_AugmentReplayCountsSamples ==
    rp.strategy \in {"rejectAugment", "reweightAugment"}
        => rp.wrapper.current_samples = rp.samplesAtStart + rp.accepted

----------------------------------------------------------------------------
(* STree: the spatial binary tree, specification SpecSTree *)

\* Stands for the 32 bits of the uint32_t child index of an STreeNode, so
\* that STreeNodeMax stands for std::numeric_limits<uint32_t>::max().
STreeIndexBits == 3
\* Stands for the 16 levels of the initial subdivide of a static STree.
StaticLevels == 1
\* Calls made on the STree per run.
MaxSTreeCalls == 4

STreeNodeMax == Pow2(STreeIndexBits) - 1

\* STreeNode(): a leaf at level 0, axis 0, with an empty DTreeWrapper.
STreeNode == [isLeaf |-> TRUE, dTree |-> DTreeWrapper, axis |-> 0,
              children |-> <<0, 0>>, level |-> 0]

\* m_nodes[idx] of the STree, indices from 0.
STreeNodeAt(nodes, idx) == nodes[idx + 1]

statisticalWeightBuilding(wr) == wr.building.statisticalWeight
setStatisticalWeightBuilding(wr, statisticalWeight) ==
    [wr EXCEPT !.building.statisticalWeight = statisticalWeight]

\* A child as STree::subdivide(nodeIdx, nodes) fills it in.
SubdivideChild(cur) ==
    [isLeaf |-> TRUE,
     dTree |-> setStatisticalWeightBuilding(cur.dTree,
                  RDiv(statisticalWeightBuilding(cur.dTree), RInt(2))),
     axis |-> (cur.axis + 1) % 3, children |-> <<0, 0>>, level |-> cur.level + 1]

\* STree::subdivide that gives both children the parent's axis, see STreeSubdivide.
STreeSubdivideSameAxis(nodes, nodeIdx) ==
    LET cur == STreeNodeAt(nodes, nodeIdx)
        size == Len(nodes) + 2
        child == [SubdivideChild(cur) EXCEPT !.axis = cur.axis]
    IN  IF size > STreeNodeMax
        THEN [nodes |-> nodes \o <<STreeNode, STreeNode>>, warned |-> TRUE]
        ELSE [nodes |-> [nodes EXCEPT ![nodeIdx + 1] =
                            [cur EXCEPT !.children = <<size - 2, size - 1>>,
                                        !.isLeaf = FALSE, !.dTree = DTreeWrapper]]
                        \o <<child, child>>,
              warned |-> FALSE]

\* STree::subdivide that keeps the whole weight in both children, see STreeSubdivide.
STreeSubdivideFullWeight(nodes, nodeIdx) ==
    LET cur == STreeNodeAt(nodes, nodeIdx)
        size == Len(nodes) + 2
        child == [SubdivideChild(cur) EXCEPT !.dTree = cur.dTree]
    IN  IF size > STreeNodeMax
        THEN [nodes |-> nodes \o <<STreeNode, STreeNode>>, warned |-> TRUE]
        ELSE [nodes |-> [nodes EXCEPT ![nodeIdx + 1] =
                            [cur EXCEPT !.children = <<size - 2, size - 1>>,
                                        !.isLeaf = FALSE, !.dTree = DTreeWrapper]]
                        \o <<child, child>>,
              warned |-> FALSE]

\* STree::subdivide(nodeIdx, nodes): the vector is resized by two first;
\* above the capacity the call warns and returns, else the two new nodes
\* become the children of nodeIdx, which gives up its DTreeWrapper.
STreeSubdivide(nodes, nodeIdx) ==
    LET resized == nodes \o <<STreeNode, STreeNode>>
        cur == STreeNodeAt(nodes, nodeIdx)
        size == Len(resized)
    IN  IF size > STreeNodeMax THEN [nodes |-> resized, warned |-> TRUE]
        ELSE [nodes |-> [nodes EXCEPT ![nodeIdx + 1] =
                            [cur EXCEPT !.children = <<size - 2, size - 1>>,
                                        !.isLeaf = FALSE, !.dTree = DTreeWrapper]]
                        \o <<SubdivideChild(cur), SubdivideChild(cur)>>,
              warned |-> FALSE]

\* The loop of STree::subdivideAll over the nNodes nodes the tree had on
\* entry: every leaf among them is subdivided.
RECURSIVE SubdivideAllLoop(_, _, _)
SubdivideAllLoop(acc, i, nNodes) ==
    IF i >= nNodes THEN acc
    ELSE IF STreeNodeAt(acc.nodes, i).isLeaf
         THEN LET r == STreeSubdivide(acc.nodes, i)
              IN  SubdivideAllLoop([nodes |-> r.nodes,
                                    warnings |-> acc.warnings + (IF r.warned THEN 1 ELSE 0)],
                                   i + 1, nNodes)
         ELSE SubdivideAllLoop(acc, i + 1, nNodes)

\* STree::subdivideAll
subdivideAll(nodes) == SubdivideAllLoop([nodes |-> nodes, warnings |-> 0], 0, Len(nodes))

\* STree::subdivide(levels)
RECURSIVE subdivideLevels(_, _)
subdivideLevels(nodes, levels) ==
    IF levels <= 0 THEN nodes
    ELSE subdivideLevels(subdivideAll(nodes).nodes, levels - 1)

\* STree::shallSplit
shallSplit(nodes, node, samplesRequired) ==
    /\ Len(nodes) < STreeNodeMax - 1
    /\ RLt(RInt(samplesRequired), statisticalWeightBuilding(node.dTree))

\* The subdivision step of STree::refine's loop body that subdivides a
\* static tree as well, see RefineSplit.
RefineSplitAlways(nodes, index, sTreeThreshold, staticSTree) ==
    IF STreeNodeAt(nodes, index).isLeaf
       /\ shallSplit(nodes, STreeNodeAt(nodes, index), sTreeThreshold)
    THEN STreeSubdivide(nodes, index)
    ELSE [nodes |-> nodes, warned |-> FALSE]

\* The subdivision step of STree::refine's loop body (lines 1486-1492).
RefineSplit(nodes, index, sTreeThreshold, staticSTree) ==
    IF STreeNodeAt(nodes, index).isLeaf
       /\ shallSplit(nodes, STreeNodeAt(nodes, index), sTreeThreshold)
       /\ ~staticSTree
    THEN STreeSubdivide(nodes, index)
    ELSE [nodes |-> nodes, warned |-> FALSE]

\* The loop of STree::refine that does not look at the children of a node
\* it has just subdivided, see RefineLoop.
RECURSIVE RefineLoopOldNodes(_, _, _)
RefineLoopOldNodes(acc, sTreeThreshold, staticSTree) ==
    IF acc.stack = <<>> THEN acc
    ELSE LET index == Top(acc.stack)
             r == RefineSplit(acc.nodes, index, sTreeThreshold, staticSTree)
             node == STreeNodeAt(acc.nodes, index)
             popped == Pop(acc.stack)
         IN  RefineLoopOldNodes(
                 [nodes |-> r.nodes,
                  warnings |-> acc.warnings + (IF r.warned THEN 1 ELSE 0),
                  stack |-> IF node.isLeaf THEN popped
                            ELSE popped \o <<node.children[1], node.children[2]>>],
                 sTreeThreshold, staticSTree)

\* The loop of STree::refine over the stack of node indices.
RECURSIVE RefineLoop(_, _, _)
RefineLoop(acc, sTreeThreshold, staticSTree) ==
    IF acc.stack = <<>> THEN acc
    ELSE LET index == Top(acc.stack)
             r == RefineSplit(acc.nodes, index, sTreeThreshold, staticSTree)
             node == STreeNodeAt(r.nodes, index)
             popped == Pop(acc.stack)
         IN  RefineLoop([nodes |-> r.nodes,
                         warnings |-> acc.warnings + (IF r.warned THEN 1 ELSE 0),
                         stack |-> IF node.isLeaf THEN popped
                                   ELSE popped \o <<node.children[1], node.children[2]>>],
                        sTreeThreshold, staticSTree)

\* STree::refine(sTreeThreshold, maxMB, staticSTree).  approxMemoryFootprint
\* is not modelled: maxMB is negative (the default, no limit) or zero, for
\* which the footprint test holds whatever the footprint is.
refine(nodes, sTreeThreshold, maxMB, staticSTree) ==
    IF maxMB >= 0 THEN [nodes |-> nodes, warnings |-> 0]
    ELSE LET acc == RefineLoop([nodes |-> nodes, warnings |-> 0, stack |-> <<0>>],
                               sTreeThreshold, staticSTree)
         IN  [nodes |-> acc.nodes, warnings |-> acc.warnings]

\* The indices forEachDTreeWrapperParallel visits: every leaf of m_nodes.
ForEachLeaf(nodes) == {i \in 0..(Len(nodes) - 1) : STreeNodeAt(nodes, i).isLeaf}

\* The leaves STree::dTreeWrapper(p) can return: those reachable from the root.
RECURSIVE LeavesBelow(_, _)
LeavesBelow(nodes, idx) ==
    IF STreeNodeAt(nodes, idx).isLeaf THEN {idx}
    ELSE LeavesBelow(nodes, STreeNodeAt(nodes, idx).children[1])
         \cup LeavesBelow(nodes, STreeNodeAt(nodes, idx).children[2])

\* The records splatted into the leaves and the thresholds handed to refine.
STreeRecords == {r \in Records : r.d = <<0, 0>> /\ ~r.isDelta}
STreeThresholds == {0, 1}
MaxMBValues == {-1, 0}

\* render: a static STree is subdivided StaticLevels times before the first
\* iteration, any other starts as the single root of STree::clear.
InitSTree ==
    /\ \E staticSTree \in BOOLEAN :
         stree = [nodes |-> IF staticSTree
                            THEN subdivideLevels(<<STreeNode>>, StaticLevels)
                            ELSE <<STreeNode>>,
                  staticSTree |-> staticSTree, calls |-> 0, lastOp |-> "init",
                  pre |-> <<STreeNode>>, nodeIdx |-> 0, warnings |-> 0,
                  sTreeThreshold |-> 0, maxMB |-> -1]
    /\ w = Idle /\ env = Idle /\ shared = Idle /\ thr = Idle /\ ctl = Idle /\ rp = Idle /\ adam = Idle /\ lk = Idle /\ buf = Idle /\ cw = Idle /\ pth = Idle

\* A vertex commit: m_sdTree->dTreeWrapper(p)->record(rec) on the leaf
\* that holds p.
STreeRecord ==
    /\ stree.calls < MaxSTreeCalls
    /\ \E i \in LeavesBelow(stree.nodes, 0), rec \in STreeRecords :
         stree' = [stree EXCEPT !.nodes[i + 1].dTree = WrapperRecord(@, rec),
                                !.calls = @ + 1, !.lastOp = "record",
                                !.pre = stree.nodes, !.nodeIdx = i, !.warnings = 0]
    /\ UNCHANGED <<pth, cw, buf, lk, adam, w, env, shared, thr, ctl, rp>>

\* A call of subdivide(nodeIdx, m_nodes) on a leaf.
STreeSubdivideNode ==
    /\ stree.calls < MaxSTreeCalls
    /\ ~stree.staticSTree
    /\ Len(stree.nodes) <= STreeNodeMax
    /\ \E i \in ForEachLeaf(stree.nodes) :
         LET r == STreeSubdivide(stree.nodes, i)
         IN  stree' = [stree EXCEPT !.nodes = r.nodes, !.calls = @ + 1,
                                    !.lastOp = "subdivide", !.pre = stree.nodes,
                                    !.nodeIdx = i,
                                    !.warnings = IF r.warned THEN 1 ELSE 0]
    /\ UNCHANGED <<pth, cw, buf, lk, adam, w, env, shared, thr, ctl, rp>>

\* A call of subdivideAll().
STreeSubdivideAll ==
    /\ stree.calls < MaxSTreeCalls
    /\ ~stree.staticSTree
    /\ Len(stree.nodes) <= STreeNodeMax
    /\ LET r == subdivideAll(stree.nodes)
       IN  stree' = [stree EXCEPT !.nodes = r.nodes, !.calls = @ + 1,
                                  !.lastOp = "subdivideAll", !.pre = stree.nodes,
                                  !.nodeIdx = 0, !.warnings = r.warnings]
    /\ UNCHANGED <<pth, cw, buf, lk, adam, w, env, shared, thr, ctl, rp>>

\* resetSDTree: m_sdTree->refine(threshold, m_sdTreeMaxMemory, m_staticSTree).
STreeRefine ==
    /\ stree.calls < MaxSTreeCalls
    /\ \E sTreeThreshold \in STreeThresholds, maxMB \in MaxMBValues :
         LET r == refine(stree.nodes, sTreeThreshold, maxMB, stree.staticSTree)
         IN  stree' = [stree EXCEPT !.nodes = r.nodes, !.calls = @ + 1,
                                    !.lastOp = "refine", !.pre = stree.nodes,
                                    !.nodeIdx = 0, !.warnings = r.warnings,
                                    !.sTreeThreshold = sTreeThreshold,
                                    !.maxMB = maxMB]
    /\ UNCHANGED <<pth, cw, buf, lk, adam, w, env, shared, thr, ctl, rp>>

NextSTree == STreeRecord \/ STreeSubdivideNode \/ STreeSubdivideAll \/ STreeRefine

SpecSTree == InitSTree /\ [][NextSTree]_vars

\* C11: when a call of subdivide(nodeIdx, m_nodes) hits the capacity limit,
\* the node vector and with it the set of leaves that
\* forEachDTreeWrapperParallel visits are as they were before the call.
C11_CapacityKeepsTopology ==
    stree.lastOp = "subdivide" /\ stree.warnings > 0
        => /\ Len(stree.nodes) = Len(stree.pre)
           /\ ForEachLeaf(stree.nodes) = ForEachLeaf(stree.pre)

\* C12: a static STree has 2^(StaticLevels + 1) - 1 nodes after the initial
\* subdivide, and no refine call changes the number of nodes or a leaf flag,
\* whatever weights the leaves have accumulated.
C12_StaticTopologyFixed ==
    stree.staticSTree
        => /\ Len(stree.nodes) = Pow2(StaticLevels + 1) - 1
           /\ stree.lastOp = "refine"
                => /\ Len(stree.nodes) = Len(stree.pre)
                   /\ ForEachLeaf(stree.nodes) = ForEachLeaf(stree.pre)
C12_Witness ==
    /\ stree.staticSTree /\ stree.lastOp = "refine"
    /\ \E i \in ForEachLeaf(stree.pre) :
         shallSplit(stree.pre, STreeNodeAt(stree.pre, i), 0)

\* C27: after a refine of a tree that is not static, with no memory cap and
\* with the node vector still below the capacity limit, every leaf, the
\* leaves the call created included, has a building weight of at most the
\* threshold.
C27_LeavesWithinThreshold ==
    /\ stree.lastOp = "refine" /\ ~stree.staticSTree
    /\ stree.maxMB < 0
    /\ Len(stree.nodes) < STreeNodeMax - 1
    => \A i \in ForEachLeaf(stree.nodes) :
          RLe(statisticalWeightBuilding(STreeNodeAt(stree.nodes, i).dTree),
              RInt(stree.sTreeThreshold))
C27_Witness ==
    /\ stree.lastOp = "refine" /\ ~stree.staticSTree
    /\ stree.maxMB < 0
    /\ Len(stree.nodes) < STreeNodeMax - 1
    /\ Len(stree.nodes) > Len(stree.pre)
    /\ stree.sTreeThreshold > 0

\* C13: every non-leaf node's two children have the next axis in the cycle
\* 0, 1, 2 and the next level.
C13_AxisCycles ==
    \A i \in 0..(Len(stree.nodes) - 1) :
        LET node == STreeNodeAt(stree.nodes, i)
        IN  ~node.isLeaf =>
              \A c \in 1..2 :
                 LET child == STreeNodeAt(stree.nodes, node.children[c])
                 IN  child.axis = (node.axis + 1) % 3 /\ child.level = node.level + 1
C13_Witness ==
    \E i \in 0..(Len(stree.nodes) - 1) :
        /\ ~STreeNodeAt(stree.nodes, i).isLeaf
        /\ STreeNodeAt(stree.nodes, i).axis = 2
        /\ stree.lastOp = "refine"

\* C14: after subdivide(nodeIdx, m_nodes) has split a leaf, each child holds
\* the parent's DTreeWrapper with half of its building weight, the two
\* halves add up to the parent's weight before the split, and the parent
\* holds an empty DTreeWrapper.
C14_SplitHalvesWeight ==
    stree.lastOp = "subdivide" /\ stree.warnings = 0
        => LET before == STreeNodeAt(stree.pre, stree.nodeIdx)
               after == STreeNodeAt(stree.nodes, stree.nodeIdx)
               c1 == STreeNodeAt(stree.nodes, after.children[1])
               c2 == STreeNodeAt(stree.nodes, after.children[2])
           IN  /\ ~after.isLeaf /\ after.dTree = DTreeWrapper
               /\ after.children[1] # after.children[2]
               /\ \A c \in {c1, c2} :
                    /\ c.isLeaf
                    /\ c.dTree = setStatisticalWeightBuilding(before.dTree,
                                    RDiv(statisticalWeightBuilding(before.dTree), RInt(2)))
               /\ RAdd(statisticalWeightBuilding(c1.dTree),
                       statisticalWeightBuilding(c2.dTree))
                    = statisticalWeightBuilding(before.dTree)
C14_Witness ==
    /\ stree.lastOp = "subdivide" /\ stree.warnings = 0
    /\ RLt(Zero, statisticalWeightBuilding(STreeNodeAt(stree.pre, stree.nodeIdx).dTree))

----------------------------------------------------------------------------
(* AdamOptimizer, specification SpecAdam.                                  *)
(*                                                                         *)
(* The optimizer's arithmetic is binary floating point with rounding to    *)
(* nearest (ties to even), infinities and NaN: a finite Float is m * 2^e   *)
(* with 2^(FloatPrecision-1) <= |m| < 2^FloatPrecision or m = 0; results   *)
(* above the largest finite value become infinite, results below the       *)
(* smallest normal value become zero.                                      *)

\* Stands for the 24 significant bits of a float.
FloatPrecision == 12
\* Stands for the largest binary exponent, 127, of a float.
FloatExpMax == 40
\* append / step calls per run.
MaxAdamCalls == 4

FFin(m, e) == [k |-> "fin", m |-> m, e |-> e]
FZero == FFin(0, 0)
FInf(sign) == [k |-> "inf", m |-> sign, e |-> 0]
FNaN == [k |-> "nan", m |-> 0, e |-> 0]
Sign(x) == IF x < 0 THEN -1 ELSE IF x > 0 THEN 1 ELSE 0

\* Number of bits of a natural number.
RECURSIVE BitLen(_)
BitLen(n) == IF n = 0 THEN 0 ELSE 1 + BitLen(n \div 2)

\* Round to nearest, ties to even: q0 is the quotient, r the remainder and
\* half the half of the divisor.
RoundHalfEven(q0, r, half) ==
    IF r > half \/ (r = half /\ q0 % 2 = 1) THEN q0 + 1 ELSE q0

\* a / 2^s rounded to an integer.
RoundedQuotient(a, s) ==
    IF s <= 0 THEN a * Pow2(-s)
    ELSE RoundHalfEven(a \div Pow2(s), a % Pow2(s), Pow2(s - 1))

\* The Float of sign sgn with significand mant at exponent ex: overflow
\* gives an infinity, underflow zero.
FPackAt(sgn, mant, ex) ==
    IF ex + FloatPrecision - 1 > FloatExpMax THEN FInf(sgn)
    ELSE IF ex + FloatPrecision - 1 < 1 - FloatExpMax THEN FZero
    ELSE FFin(sgn * mant, ex)

\* A significand that rounded up to 2^FloatPrecision moves one place.
FPack(sgn, q, ex) ==
    IF q = Pow2(FloatPrecision) THEN FPackAt(sgn, q \div 2, ex + 1)
    ELSE FPackAt(sgn, q, ex)

FRoundShift(m, e, s) == FPack(Sign(m), RoundedQuotient(Abs(m), s), e + s)

\* Rounding of the exact value m * 2^e to a Float.
FRound(m, e) ==
    IF m = 0 THEN FZero ELSE FRoundShift(m, e, BitLen(Abs(m)) - FloatPrecision)

\* Conversion of an integer, and of the decimal literal n / d.
FInt(n) == FRound(n, 0)

FNeg(a) == IF a.k = "nan" THEN a ELSE [a EXCEPT !.m = -a.m]

\* a * b
FMul(a, b) ==
    IF a.k = "nan" \/ b.k = "nan" THEN FNaN
    ELSE IF a.k = "inf" \/ b.k = "inf"
         THEN IF a.m = 0 \/ b.m = 0 THEN FNaN ELSE FInf(Sign(a.m) * Sign(b.m))
         ELSE FRound(a.m * b.m, a.e + b.e)

\* a / b: the quotient carries two extra bits and a sticky bit.
FDiv(a, b) ==
    IF a.k = "nan" \/ b.k = "nan" THEN FNaN
    ELSE IF a.k = "inf" THEN IF b.k = "inf" THEN FNaN
                             ELSE FInf(a.m * (IF b.m < 0 THEN -1 ELSE 1))
    ELSE IF b.k = "inf" THEN FZero
    ELSE IF b.m = 0 THEN IF a.m = 0 THEN FNaN ELSE FInf(Sign(a.m))
    ELSE LET n == Abs(a.m) * Pow2(FloatPrecision + 2)
             q == n \div Abs(b.m)
             sticky == IF n % Abs(b.m) = 0 THEN 0 ELSE 1
         IN  FRound(Sign(a.m) * Sign(b.m) * (2 * q + sticky),
                    a.e - b.e - FloatPrecision - 3)

\* a + b: an operand more than FloatPrecision + 3 binary places below the
\* other one does not change the rounded sum.
FAdd(a, b) ==
    IF a.k = "nan" \/ b.k = "nan" THEN FNaN
    ELSE IF a.k = "inf" THEN IF b.k = "inf" /\ b.m # a.m THEN FNaN ELSE a
    ELSE IF b.k = "inf" THEN b
    ELSE IF a.m = 0 THEN b
    ELSE IF b.m = 0 THEN a
    ELSE LET hi == IF a.e >= b.e THEN a ELSE b
             lo == IF a.e >= b.e THEN b ELSE a
             d == hi.e - lo.e
         IN  IF d > FloatPrecision + 3 THEN hi
             ELSE FRound(hi.m * Pow2(d) + lo.m, lo.e)

FSub(a, b) == FAdd(a, FNeg(b))

\* Largest q with q * q <= n.
RECURSIVE ISqrtFrom(_, _, _)
ISqrtFrom(n, lo, hi) ==
    IF lo >= hi THEN lo
    ELSE LET mid == (lo + hi + 1) \div 2
         IN  IF mid * mid <= n THEN ISqrtFrom(n, mid, hi) ELSE ISqrtFrom(n, lo, mid - 1)
ISqrt(n) == ISqrtFrom(n, 0, Pow2((BitLen(n) + 1) \div 2))

\* std::sqrt
FSqrt(a) ==
    IF a.k = "nan" \/ a.m < 0 THEN FNaN
    ELSE IF a.k = "inf" \/ a.m = 0 THEN a
    ELSE LET s == IF (a.e - FloatPrecision) % 2 = 0 THEN FloatPrecision + 2
                  ELSE FloatPrecision + 3
             n == a.m * Pow2(s)
             q == ISqrt(n)
             sticky == IF q * q = n THEN 0 ELSE 1
         IN  FRound(2 * q + sticky, ((a.e - s) \div 2) - 1)

\* std::pow(base, n) for the integer exponents the optimizer uses.
RECURSIVE FPow(_, _)
FPow(base, n) == IF n <= 0 THEN FInt(1) ELSE FMul(FPow(base, n - 1), base)

\* a < b
FLt(a, b) ==
    IF a.k = "nan" \/ b.k = "nan" THEN FALSE
    ELSE IF a.k = "inf" THEN a.m < 0 /\ ~(b.k = "inf" /\ b.m < 0)
    ELSE IF b.k = "inf" THEN b.m > 0
    ELSE IF a.m <= 0 /\ b.m >= 0 THEN a.m < 0 \/ b.m > 0
    ELSE IF a.m >= 0 /\ b.m <= 0 THEN FALSE
    ELSE IF a.m > 0 THEN a.e < b.e \/ (a.e = b.e /\ a.m < b.m)
    ELSE a.e > b.e \/ (a.e = b.e /\ a.m < b.m)

\* std::max(a, b) and std::min(a, b) as the library defines them.
FMax(a, b) == IF FLt(a, b) THEN b ELSE a
FMin(a, b) == IF FLt(b, a) THEN b ELSE a

\* The decimal literal n / d as a Float.
FLit(n, d) == FDiv(FInt(n), FInt(d))
\* std::numeric_limits<float>::max(), the largest finite Float.
FHuge == FFin(Pow2(FloatPrecision) - 1, FloatExpMax - FloatPrecision + 1)

\* AdamOptimizer{0.01f}: learningRate 0.01, batchSize 1, epsilon 1e-08,
\* beta1 0.9, beta2 0.999.
AdamHparams ==
    [learningRate |-> FLit(1, 100), batchSize |-> FInt(1),
     epsilon |-> FLit(1, 100000000), beta1 |-> FLit(9, 10), beta2 |-> FLit(999, 1000)]
\* The bound of the clamp in step.
AdamClamp == FInt(20)

\* AdamOptimizer::State
AdamState ==
    [iter |-> 0, firstMoment |-> FZero, secondMoment |-> FZero, variable |-> FZero,
     batchAccumulation |-> FZero, batchGradient |-> FZero]

\* AdamOptimizer::step(gradient)
AdamStepOp(m_state, gradient) ==
    LET h == AdamHparams
        iter == m_state.iter + 1
        one == FInt(1)
        actualLearningRate ==
            FDiv(FMul(h.learningRate, FSqrt(FSub(one, FPow(h.beta2, iter)))),
                 FSub(one, FPow(h.beta1, iter)))
        firstMoment == FAdd(FMul(h.beta1, m_state.firstMoment),
                            FMul(FSub(one, h.beta1), gradient))
        secondMoment == FAdd(FMul(h.beta2, m_state.secondMoment),
                             FMul(FMul(FSub(one, h.beta2), gradient), gradient))
        variable == FSub(m_state.variable,
                         FDiv(FMul(actualLearningRate, firstMoment),
                              FAdd(FSqrt(secondMoment), h.epsilon)))
    IN  [m_state EXCEPT !.iter = iter, !.firstMoment = firstMoment,
                        !.secondMoment = secondMoment,
                        !.variable = FMin(FMax(variable, FNeg(AdamClamp)), AdamClamp)]

\* AdamOptimizer::append(gradient, statisticalWeight)
AdamAppendOp(m_state, gradient, statisticalWeight) ==
    LET batchGradient == FAdd(m_state.batchGradient, FMul(gradient, statisticalWeight))
        batchAccumulation == FAdd(m_state.batchAccumulation, statisticalWeight)
    IN  IF FLt(AdamHparams.batchSize, batchAccumulation)
        THEN [AdamStepOp(m_state, FDiv(batchGradient, batchAccumulation))
                 EXCEPT !.batchGradient = FZero, !.batchAccumulation = FZero]
        ELSE [m_state EXCEPT !.batchGradient = batchGradient,
                             !.batchAccumulation = batchAccumulation]

\* Finite gradients and statistical weights handed to the optimizer.
AdamGradients == {FInt(1), FInt(-1), FInt(1000000), FInt(-1000000), FHuge, FNeg(FHuge)}
AdamWeights == {FInt(1), FInt(2)}

InitAdam ==
    /\ adam = [m_state |-> AdamState, calls |-> 0]
    /\ w = Idle /\ env = Idle /\ shared = Idle /\ thr = Idle /\ ctl = Idle /\ rp = Idle /\ lk = Idle /\ buf = Idle /\ cw = Idle /\ pth = Idle
    /\ stree = Idle

AdamAppend ==
    /\ adam.calls < MaxAdamCalls
    /\ \E gradient \in AdamGradients, statisticalWeight \in AdamWeights :
         adam' = [m_state |-> AdamAppendOp(adam.m_state, gradient, statisticalWeight),
                  calls |-> adam.calls + 1]
    /\ UNCHANGED <<pth, cw, buf, lk, w, env, shared, thr, ctl, rp, stree>>

AdamStep ==
    /\ adam.calls < MaxAdamCalls
    /\ \E gradient \in AdamGradients :
         adam' = [m_state |-> AdamStepOp(adam.m_state, gradient),
                  calls |-> adam.calls + 1]
    /\ UNCHANGED <<pth, cw, buf, lk, w, env, shared, thr, ctl, rp, stree>>

NextAdam == AdamAppend \/ AdamStep

SpecAdam == InitAdam /\ [][NextAdam]_vars

\* C15: after any sequence of append and step calls with finite gradients
\* the optimizer's variable lies in [-20, 20].
C15_VariableClamped ==
    LET v == adam.m_state.variable
    IN  ~FLt(v, FNeg(AdamClamp)) /\ ~FLt(AdamClamp, v) /\ v.k = "fin"

----------------------------------------------------------------------------
(* DTreeWrapper::optimizeBsdfSamplingFraction under its SpinLock,          *)
(* specification SpecLock.  The read of the optimizer by the gradient      *)
(* computation and the append are steps of their own, so that two calls    *)
(* not kept apart by the lock can interleave.                              *)

\* Calls of record with a loss enabled, over all threads.
MaxLockCalls == 3

\* std::atomic_flag::test_and_set that reports a clear flag whatever the
\* flag holds, see test_and_set.
test_and_set_blind(m_mutex) == [m_mutex |-> TRUE, was |-> FALSE]

\* std::atomic_flag::test_and_set: sets the flag, returns what it held.
test_and_set(m_mutex) == [m_mutex |-> TRUE, was |-> m_mutex]

\* The part of the loss gradient that the record determines
\* (dLoss_dVariable), and the record's statistical weight.
LossRecords == {[dLoss_dVariable |-> FInt(1), statisticalWeight |-> FInt(1)],
                [dLoss_dVariable |-> FInt(-1), statisticalWeight |-> FInt(2)]}
NoLossRecord == [dLoss_dVariable |-> FZero, statisticalWeight |-> FZero]

\* lossGradient = l2RegGradient + dLoss_dVariable with l2RegGradient = 0.01f * variable.
lossGradient(variable, dLoss_dVariable) ==
    FAdd(FMul(FLit(1, 100), variable), dLoss_dVariable)

\* The positions between m_lock.lock() and m_lock.unlock().
LockedSection == {"gradient", "append", "unlock"}

InitLock ==
    /\ lk = [m_mutex |-> FALSE, optimizer |-> AdamState, issued |-> 0, spun |-> FALSE,
             thread |-> [t \in Threads |->
                           [pc |-> "idle", rec |-> NoLossRecord, lossGradient |-> FZero]]]
    /\ w = Idle /\ env = Idle /\ shared = Idle /\ thr = Idle /\ ctl = Idle /\ rp = Idle /\ buf = Idle /\ cw = Idle /\ pth = Idle
    /\ stree = Idle /\ adam = Idle /\ buf = Idle /\ cw = Idle /\ pth = Idle

\* DTreeWrapper::record with a loss and rec.product > 0 calls
\* optimizeBsdfSamplingFraction(rec, ratioPower).
EnterOptimize(t) ==
    /\ lk.thread[t].pc = "idle"
    /\ lk.issued < MaxLockCalls
    /\ \E rec \in LossRecords :
         lk' = [lk EXCEPT !.issued = @ + 1,
                          !.thread[t] = [pc |-> "lock", rec |-> rec, lossGradient |-> FZero]]
    /\ UNCHANGED <<pth, cw, buf, w, env, shared, thr, ctl, rp, stree, adam>>

\* m_lock.lock(): one round of while (m_mutex.test_and_set()) { }.
Lock(t) ==
    /\ lk.thread[t].pc = "lock"
    /\ LET r == test_and_set(lk.m_mutex)
       IN  lk' = [lk EXCEPT !.m_mutex = r.m_mutex,
                            !.spun = @ \/ r.was,
                            !.thread[t].pc = IF r.was THEN "lock" ELSE "gradient"]
    /\ UNCHANGED <<pth, cw, buf, w, env, shared, thr, ctl, rp, stree, adam>>

\* The gradient computation: reads the optimizer's variable.
ComputeGradient(t) ==
    /\ lk.thread[t].pc = "gradient"
    /\ lk' = [lk EXCEPT !.thread[t].pc = "append",
                        !.thread[t].lossGradient =
                            lossGradient(lk.optimizer.variable,
                                         lk.thread[t].rec.dLoss_dVariable)]
    /\ UNCHANGED <<pth, cw, buf, w, env, shared, thr, ctl, rp, stree, adam>>

\* bsdfSamplingFractionOptimizer.append(lossGradient, rec.statisticalWeight)
AppendGradient(t) ==
    /\ lk.thread[t].pc = "append"
    /\ lk' = [lk EXCEPT !.thread[t].pc = "unlock",
                        !.optimizer = AdamAppendOp(@, lk.thread[t].lossGradient,
                                                   lk.thread[t].rec.statisticalWeight)]
    /\ UNCHANGED <<pth, cw, buf, w, env, shared, thr, ctl, rp, stree, adam>>

\* m_lock.unlock(): m_mutex.clear().
Unlock(t) ==
    /\ lk.thread[t].pc = "unlock"
    /\ lk' = [lk EXCEPT !.m_mutex = FALSE,
                        !.thread[t] = [pc |-> "idle", rec |-> NoLossRecord,
                                       lossGradient |-> FZero]]
    /\ UNCHANGED <<pth, cw, buf, w, env, shared, thr, ctl, rp, stree, adam>>

NextLock ==
    \E t \in Threads :
        EnterOptimize(t) \/ Lock(t) \/ ComputeGradient(t) \/ AppendGradient(t) \/ Unlock(t)

SpecLock == InitLock /\ [][NextLock]_vars

\* C16: at most one thread at a time is between m_lock.lock() and
\* m_lock.unlock() of one wrapper, so no two Adam updates overlap.
C16_MutualExclusion ==
    \A t1, t2 \in Threads :
        lk.thread[t1].pc \in LockedSection /\ lk.thread[t2].pc \in LockedSection
            => t1 = t2
C16_Witness ==
    /\ lk.spun
    /\ \E t1, t2 \in Threads :
         lk.thread[t1].pc \in LockedSection /\ lk.thread[t2].pc = "lock"


-----------------------------------------------------------------------------
(* SpecBuf: the retained-path buffer m_samplePaths over one render call,
   with performRenderPasses unrolled into one step per render block.  The
   film holds FilmSize pixels and every render process cuts it into the
   blocks of BlockPoints.  The clock counts quarter seconds. *)

\* points.size() of the blocks of one render process.
BlockPoints == <<2, 1>>
FilmSize == BlockPoints[1] + BlockPoints[2]

\* The strategy flags that are set (lines 1627-1636); they are independent
\* booleans, so more than one may be set.
StrategyFlagSets ==
    {{}, {"reweight"}, {"reject"}, {"rejectReweight"}, {"augment"},
     {"rejectAugment"}, {"reweightAugment"}, {"reweight", "augment"}}

AugmentFamily == {"augment", "rejectAugment", "reweightAugment"}

\* stratIterActive (line 1638): -1 is the default.
StratIterActiveValues == {-1, 0, 1}

BufConfigs ==
    {[budgetType |-> "spp", budget |-> n, sppPerPass |-> spp, autoBudget |-> ab,
      flags |-> fl, m_strategyIterationActive |-> sia]
        : spp \in SppPerPassValues, n \in {1, 3, MaxPasses}, ab \in BOOLEAN,
          fl \in StrategyFlagSets, sia \in StratIterActiveValues}
    \cup
    {[budgetType |-> "seconds", budget |-> 4 * sec, sppPerPass |-> spp, autoBudget |-> ab,
      flags |-> fl, m_strategyIterationActive |-> sia]
        : spp \in SppPerPassValues, sec \in 1..MaxSeconds, ab \in BOOLEAN,
          fl \in StrategyFlagSets, sia \in StratIterActiveValues}

\* reuseSamples of renderSPP (line 2651) and of renderBlock (line 2934).
ReuseSamples(m_iter, m_strategyIterationActive, flags) ==
    m_iter <= m_strategyIterationActive /\ flags # {}

\* The routines that run over the retained paths before the passes:
\* renderSPP lines 2637-2649, renderTime lines 2770-2775.
RoutinesBefore(budgetType, flags) ==
    IF budgetType = "spp"
    THEN (IF flags \cap AugmentFamily # {} THEN {"updateRequiredSamples"} ELSE {})
         \cup (IF "reweight" \in flags THEN {"reweightCurrentPaths"}
               ELSE IF "reject" \in flags THEN {"rejectCurrentPaths"}
               ELSE IF "rejectReweight" \in flags THEN {"rejectReweightHybrid"}
               ELSE {})
    ELSE IF "reweight" \in flags THEN {"reweightCurrentPaths"}
         ELSE IF "reject" \in flags THEN {"rejectCurrentPaths"}
         ELSE {}

\* The routine that runs over the retained paths after the passes of
\* renderSPP (lines 2667-2676); renderTime has none.
RoutinesAfter(budgetType, flags) ==
    IF budgetType # "spp" THEN {}
    ELSE IF "augment" \in flags THEN {"performAugmentedSamples"}
    ELSE IF "rejectAugment" \in flags THEN {"rejectAugmentHybrid"}
    ELSE IF "reweightAugment" \in flags THEN {"reweightAugmentHybrid"}
    ELSE {}

\* performAugmentedSamples and rejectAugmentHybrid stop at
\* m_augmentedStartPos (lines 2341, 2421); the other routines run over the
\* whole vector (reweightAugmentHybrid: line 2257).
OverWholeVector(rs) ==
    rs \cap {"performAugmentedSamples", "rejectAugmentHybrid"} = {}

\* The routines that replay a path and may set its active flag to false;
\* updateRequiredSamples (lines 1672-1689) only reads the paths.
ReplayRoutines ==
    {"reweightCurrentPaths", "rejectCurrentPaths", "rejectReweightHybrid",
     "performAugmentedSamples", "rejectAugmentHybrid", "reweightAugmentHybrid"}

\* The slots [pos, pos + len) lie inside a vector of the given size.
InsideBuffer(range, size) == range[1] + range[2] <= size

Overlap(r1, r2) == r1[1] < r2[1] + r2[2] /\ r2[1] < r1[1] + r1[2]

InitBuf ==
    /\ \E cfg \in BufConfigs :
         buf = [budgetType |-> cfg.budgetType, budget |-> cfg.budget,
                sppPerPass |-> cfg.sppPerPass, autoBudget |-> cfg.autoBudget,
                flags |-> cfg.flags,
                m_strategyIterationActive |-> cfg.m_strategyIterationActive,
                pc |-> "loop", result |-> TRUE,
                m_iter |-> 0, m_passesRendered |-> 0, m_isFinalIter |-> FALSE,
                size |-> 0, curr_buffer_pos |-> 0, m_augmentedStartPos |-> 0,
                activeOld |-> FALSE, activeNew |-> FALSE,
                pending |-> <<0, 0>>, numPasses |-> 0, inFinal |-> FALSE,
                passesThisIteration |-> 0, remainingPasses |-> 0, sppRendered |-> 0,
                clock |-> 0, elapsedSeconds |-> 0, startIter |-> 0,
                ranges |-> {}, blocksStored |-> 0, outside |-> FALSE, ran |-> {}]
    /\ w = Idle /\ env = Idle /\ shared = Idle /\ thr = Idle /\ rp = Idle /\ stree = Idle /\ adam = Idle /\ lk = Idle /\ ctl = Idle /\ cw = Idle /\ pth = Idle

\* The while condition of renderSPP (line 2611) and of renderTime (line 2756).
BufLoopCondition(b) ==
    /\ b.result
    /\ IF b.budgetType = "spp" THEN b.m_passesRendered < b.budget
       ELSE b.elapsedSeconds < b.budget

\* The routines of rs run over the paths below the bound: ran records the
\* routines that met an active path, and a replay routine may leave a
\* region without active paths.
RunRoutines(b, rs, overNew, keepOld, keepNew) ==
    LET met == b.activeOld \/ (overNew /\ b.activeNew)
        replays == rs \cap ReplayRoutines # {}
    IN  [b EXCEPT !.ran = IF met THEN @ \cup rs ELSE @,
                  !.activeOld = IF replays THEN @ /\ keepOld ELSE @,
                  !.activeNew = IF replays /\ overNew THEN @ /\ keepNew ELSE @]

\* The head of the loop body up to the call of performRenderPasses
\* (renderSPP lines 2611-2662, renderTime lines 2756-2777).
BufIterBegin ==
    /\ buf.pc = "loop"
    /\ BufLoopCondition(buf)
    /\ buf.m_iter < MaxIters
    /\ \E keepOld, keepNew \in BOOLEAN :
         LET remainingPasses == buf.budget - buf.m_passesRendered
             pti == IF buf.budgetType = "spp"
                    THEN PassesThisIterationSPP(remainingPasses, buf.m_iter)
                    ELSE Pow2(buf.m_iter)
             rs == RoutinesBefore(buf.budgetType, buf.flags)
             b1 == RunRoutines(buf, rs, OverWholeVector(rs), keepOld, keepNew)
             grows == buf.budgetType = "spp"
                      /\ ReuseSamples(buf.m_iter, buf.m_strategyIterationActive, buf.flags)
         IN  buf' = [b1 EXCEPT
                       !.pc = "passes",
                       !.sppRendered = buf.m_passesRendered * buf.sppPerPass,
                       !.remainingPasses = IF buf.budgetType = "spp"
                                           THEN remainingPasses ELSE @,
                       !.passesThisIteration = pti,
                       !.m_isFinalIter = IF buf.budgetType = "spp"
                                         THEN pti >= remainingPasses ELSE @,
                       !.startIter = buf.clock,
                       !.curr_buffer_pos = IF grows THEN buf.size ELSE @,
                       !.size = IF grows
                                THEN @ + pti * buf.sppPerPass * FilmSize ELSE @,
                       !.numPasses = pti, !.pending = <<pti, pti>>,
                       !.inFinal = FALSE]
    /\ UNCHANGED <<pth, cw, lk, adam, stree, w, env, shared, thr, rp, ctl>>

\* Where the controller goes once performRenderPasses has returned true.
AfterPasses(b) ==
    IF ~b.inFinal THEN [b EXCEPT !.pc = "post"]
    ELSE IF b.budgetType = "spp" THEN [b EXCEPT !.pc = "tail"]
    ELSE LET b1 == [b EXCEPT !.elapsedSeconds = b.clock]
         IN  IF b1.elapsedSeconds < b1.budget
             THEN [b1 EXCEPT !.pending = <<b.numPasses, b.numPasses>>]
             ELSE [b1 EXCEPT !.pc = "tail"]

BlockTicks(b) == IF b.budgetType = "seconds" THEN {1, MaxTick} ELSE {0}

\* renderBlock (lines 2908-3002) for block k of one of the scheduled
\* processes: under m_samplePathMutex it takes points.size() * m_sppPerPass
\* slots at curr_buffer_pos, then stores one path per sample there.  valid
\* says whether one of the stored paths is active.  A store outside the
\* vector is undefined: the run goes on or the process dies.
RenderBlock(k) ==
    /\ buf.pc = "passes"
    /\ buf.pending[k] > 0
    /\ \E dt \in BlockTicks(buf), valid \in BOOLEAN, dies \in BOOLEAN :
         LET reuse == ReuseSamples(buf.m_iter, buf.m_strategyIterationActive, buf.flags)
             range == <<buf.curr_buffer_pos, BlockPoints[k] * buf.sppPerPass>>
             inside == InsideBuffer(range, buf.size)
             pending1 == [buf.pending EXCEPT ![k] = @ - 1]
             b1 == [buf EXCEPT !.clock = @ + dt, !.pending = pending1]
             b2 == IF reuse
                   THEN [b1 EXCEPT !.curr_buffer_pos = @ + range[2],
                                   !.ranges = @ \cup {range},
                                   !.blocksStored = @ + 1,
                                   !.outside = @ \/ ~inside,
                                   !.activeNew = @ \/ (inside /\ valid)]
                   ELSE b1
         IN  /\ dies => reuse /\ ~inside
             /\ reuse \/ ~valid
             /\ buf' = IF reuse /\ ~inside /\ dies
                       THEN [b2 EXCEPT !.pc = "done", !.result = FALSE]
                       ELSE IF pending1 = <<0, 0>>
                            THEN AfterPasses([b2 EXCEPT
                                    !.m_passesRendered = @ + buf.numPasses])
                            ELSE b2
    /\ UNCHANGED <<pth, cw, lk, adam, stree, w, env, shared, thr, rp, ctl>>

\* performRenderPasses in seconds mode: after the wait for process j the
\* whole seconds elapsed exceed m_budget (lines 1840-1843, 1856-1858); the
\* processes are cancelled and their remaining blocks never run.
AbortPasses ==
    /\ buf.pc = "passes"
    /\ buf.budgetType = "seconds"
    /\ buf.pending # <<0, 0>>
    /\ buf.clock \div 4 > buf.budget \div 4
    /\ \E j \in 1..buf.numPasses :
         buf' = AfterPasses([buf EXCEPT !.pending = <<0, 0>>,
                                        !.m_passesRendered = @ + j])
    /\ UNCHANGED <<pth, cw, lk, adam, stree, w, env, shared, thr, rp, ctl>>

\* performRenderPasses returns false: a process did not return ESuccess.
BufPassFails ==
    /\ buf.pc = "passes"
    /\ buf.pending # <<0, 0>>
    /\ buf' = [buf EXCEPT !.result = FALSE, !.pending = <<0, 0>>,
                 !.pc = IF LeavesIteration(buf.budgetType, buf.inFinal)
                        THEN "loop" ELSE "tail"]
    /\ UNCHANGED <<pth, cw, lk, adam, stree, w, env, shared, thr, rp, ctl>>

\* After the iteration's passes: the augmenting routine of renderSPP and
\* m_augmentedStartPos (lines 2667-2679), then the automatic budget, which
\* may render on without growing the vector (lines 2691-2700 and
\* 2794-2813).
BufPost ==
    /\ buf.pc = "post"
    /\ \E varWorse, keepOld, keepNew \in BOOLEAN :
         /\ buf.m_iter = 0 => ~varWorse
         /\ LET rs == RoutinesAfter(buf.budgetType, buf.flags)
                b1 == RunRoutines(buf, rs, OverWholeVector(rs), keepOld, keepNew)
                marks == buf.budgetType = "spp" /\ buf.flags \cap AugmentFamily # {}
                b2 == IF marks
                      THEN [b1 EXCEPT !.m_augmentedStartPos = b1.size,
                                      !.activeOld = b1.activeOld \/ b1.activeNew,
                                      !.activeNew = FALSE]
                      ELSE b1
                pti == buf.passesThisIteration
                trusted == buf.sppRendered > 256 /\ varWorse
                remainingPasses == buf.remainingPasses - pti
                secondsIter == buf.clock - buf.startIter
                remainingTime == buf.budget - buf.elapsedSeconds - secondsIter
                goFinal == IF buf.budgetType = "spp"
                           THEN buf.autoBudget /\ remainingPasses > 0
                                /\ (remainingPasses < pti \/ trusted)
                           ELSE buf.autoBudget /\ remainingTime > 0
                                /\ (remainingTime < secondsIter \/ trusted)
                n == IF buf.budgetType = "spp" THEN remainingPasses ELSE pti
                b3 == [b2 EXCEPT !.remainingPasses = IF buf.budgetType = "spp"
                                                     THEN remainingPasses ELSE @]
            IN  buf' = IF goFinal
                       THEN [b3 EXCEPT !.m_isFinalIter = TRUE, !.inFinal = TRUE,
                               !.pc = "passes", !.numPasses = n,
                               !.pending = <<n, n>>]
                       ELSE [b3 EXCEPT !.pc = "tail"]
    /\ UNCHANGED <<pth, cw, lk, adam, stree, w, env, shared, thr, rp, ctl>>

\* The tail of the loop body: ++m_iter (lines 2710 and 2821-2823).  The
\* record of what the iteration stored and replayed starts afresh.
BufEndIter ==
    /\ buf.pc = "tail"
    /\ buf' = [buf EXCEPT !.pc = "loop", !.m_iter = @ + 1,
                 !.elapsedSeconds = IF buf.budgetType = "seconds" THEN buf.clock ELSE @,
                 !.ranges = {}, !.blocksStored = 0, !.outside = FALSE, !.ran = {}]
    /\ UNCHANGED <<pth, cw, lk, adam, stree, w, env, shared, thr, rp, ctl>>

\* The loop is left; renderSPP clears the vector (lines 2721-2722).
BufFinish ==
    /\ buf.pc = "loop"
    /\ ~BufLoopCondition(buf)
    /\ buf' = IF buf.budgetType = "spp"
              THEN [buf EXCEPT !.pc = "done", !.size = 0,
                      !.activeOld = FALSE, !.activeNew = FALSE,
                      !.ranges = {}, !.blocksStored = 0, !.outside = FALSE, !.ran = {}]
              ELSE [buf EXCEPT !.pc = "done",
                      !.ranges = {}, !.blocksStored = 0, !.outside = FALSE, !.ran = {}]
    /\ UNCHANGED <<pth, cw, lk, adam, stree, w, env, shared, thr, rp, ctl>>

NextBuf ==
    \/ BufIterBegin
    \/ \E k \in 1..Len(BlockPoints) : RenderBlock(k)
    \/ AbortPasses
    \/ BufPassFails
    \/ BufPost
    \/ BufEndIter
    \/ BufFinish

SpecBuf == InitBuf /\ [][NextBuf]_vars

\* C18: whenever reuse is enabled for the iteration, every range of slots a
\* render block has stored into lies inside m_samplePaths and overlaps the
\* range of no other block, whatever passes the iteration renders.
C18_SlotsInsideAndExclusive ==
    /\ \A r \in buf.ranges : InsideBuffer(r, buf.size)
    /\ \A r1, r2 \in buf.ranges : r1 # r2 => ~Overlap(r1, r2)
    /\ Cardinality(buf.ranges) = buf.blocksStored

\* C19: in an iteration whose index is greater than stratIterActive no
\* replay routine meets an active retained path and no block stores a path.
C19_NoReuseAfterStratIterActive ==
    buf.m_iter > buf.m_strategyIterationActive
        => buf.ran \cap ReplayRoutines = {} /\ buf.blocksStored = 0

\* C21: in every iteration the replay of the cached paths precedes the
\* collection of the new paths: once the iteration's passes have returned,
\* no replay routine meets a retained path any more.
C21_NoReplayAfterCollect ==
    [][buf.pc = "post" => (buf'.ran \cap ReplayRoutines) \subseteq buf.ran]_vars

----------------------------------------------------------------------------
(* SpecCollect: the render threads of one pass work on one DTreeWrapper.
   Each commit calls DTreeWrapper::record and each sampleMat calls
   DTreeWrapper::sample and incSampleCount, without a lock.  min_nzradiance
   (float) and current_samples (std::uint64_t) are plain members: every
   read and every write of them is a step of its own.  The atomic adds of
   recordIrradiance are one step here, SpecAtomic takes them apart. *)

\* Sum of the sc values updateRequiredSamples adds to the wrapper.
WeightedSampleCounts == {Zero, One, RInt(12)}

\* DTreeWrapper::computeRequiredSamples; coin is sampler->next1D() < frac.
computeRequiredSamples(wr, coin) ==
    IF RLt(wr.B, EPSILON) THEN [wr EXCEPT !.req_augmented_samples = 0]
    ELSE LET req == RMul(wr.B, wr.weighted_previous_samples)
             whole == req[1] \div req[2]
             frac == RSub(req, RInt(whole))
         IN  [wr EXCEPT !.req_augmented_samples =
                            IF coin /\ RLt(Zero, frac) THEN whole + 1 ELSE whole]

\* current_samples++ (line 1097): the store of the incremented value that
\* the thread loaded.
IncrementLoaded(current, loaded) == loaded + 1

\* min_nzradiance = std::min(min_nzradiance, irradiance) (line 1005): the
\* store of the minimum with the value that the thread loaded.
MinLoaded(current, loaded, irradiance) == RMin(loaded, irradiance)

ThreadIdle == [pc |-> "idle", rec |-> NoRecord, irradiance |-> Zero, loaded |-> Zero,
               count |-> 0]

InitCollect ==
    /\ cw = [wr |-> DTreeWrapper, phase |-> "reset", iter |-> 0, isBuilt |-> FALSE,
             thr |-> [t \in Threads |-> ThreadIdle], issued |-> 0,
             passedMin |-> FloatMax, calls |-> 0, drawsOk |-> TRUE,
             drewAugmented |-> FALSE]
    /\ w = Idle /\ env = Idle /\ shared = Idle /\ thr = Idle /\ ctl = Idle /\ rp = Idle /\ stree = Idle /\ adam = Idle /\ lk = Idle /\ buf = Idle /\ pth = Idle

AllIdle == \A t \in Threads : cw.thr[t].pc = "idle"

\* resetSDTree at the start of an iteration (line 2633).
CollectReset ==
    /\ cw.phase = "reset"
    /\ cw.iter < MaxIters
    /\ \E dangling \in DanglingReads :
         cw' = [cw EXCEPT !.wr = WrapperReset(@, MaxDepthArg - 2, <<3, 10>>, dangling),
                          !.phase = "required"]
    /\ UNCHANGED <<pth, buf, lk, adam, stree, w, env, shared, thr, ctl, rp>>

\* updateRequiredSamples (lines 1672-1689, called at 2636 with an augment
\* flag set): the weighted counts of the retained paths, then
\* computeRequiredSamples.
CollectRequired ==
    /\ cw.phase = "required"
    /\ \E wsc \in WeightedSampleCounts, coin \in BOOLEAN :
         cw' = [cw EXCEPT
                  !.wr = computeRequiredSamples(
                             [@ EXCEPT !.weighted_previous_samples = RAdd(@, wsc)], coin),
                  !.phase = "collect"]
    /\ UNCHANGED <<pth, buf, lk, adam, stree, w, env, shared, thr, ctl, rp>>

\* A thread enters DTreeWrapper::record(rec): a delta record returns, a
\* positive irradiance goes to the std::min of line 1005, any other to
\* recordIrradiance.
BeginWrapperRecord(t) ==
    /\ cw.phase = "collect"
    /\ cw.thr[t].pc = "idle"
    /\ cw.issued < MaxRecords
    /\ \E rec \in Records :
         LET irradiance == IF rec.isDelta THEN Zero ELSE RDiv(rec.radiance, rec.woPdf)
             positive == ~rec.isDelta /\ RLt(Zero, irradiance)
         IN  cw' = [cw EXCEPT
                      !.issued = @ + 1,
                      !.passedMin = IF positive THEN RMin(@, irradiance) ELSE @,
                      !.thr[t] = [ThreadIdle EXCEPT
                                    !.pc = IF rec.isDelta THEN "idle"
                                           ELSE IF positive THEN "min_load" ELSE "splat",
                                    !.rec = rec, !.irradiance = irradiance]]
    /\ UNCHANGED <<pth, buf, lk, adam, stree, w, env, shared, thr, ctl, rp>>

\* The read of min_nzradiance on line 1005.
MinLoad(t) ==
    /\ cw.thr[t].pc = "min_load"
    /\ cw' = [cw EXCEPT !.thr[t].pc = "min_store",
                        !.thr[t].loaded = cw.wr.min_nzradiance]
    /\ UNCHANGED <<pth, buf, lk, adam, stree, w, env, shared, thr, ctl, rp>>

\* The write of min_nzradiance on line 1005.
MinStore(t) ==
    /\ cw.thr[t].pc = "min_store"
    /\ cw' = [cw EXCEPT
                !.wr.min_nzradiance = MinLoaded(@, cw.thr[t].loaded, cw.thr[t].irradiance),
                !.thr[t].pc = "splat"]
    /\ UNCHANGED <<pth, buf, lk, adam, stree, w, env, shared, thr, ctl, rp>>

\* building.recordIrradiance(...) on line 1007.
Splat(t) ==
    /\ cw.thr[t].pc = "splat"
    /\ cw' = [cw EXCEPT
                !.wr.building = recordIrradiance(@, cw.thr[t].rec.d, cw.thr[t].irradiance,
                                                 cw.thr[t].rec.statisticalWeight),
                !.thr[t] = ThreadIdle]
    /\ UNCHANGED <<pth, buf, lk, adam, stree, w, env, shared, thr, ctl, rp>>

\* sampleMat up to its incSampleCount (lines 3040-3072): when the guiding
\* branch is taken, dTree->sample reads current_samples and draws from the
\* augmented tree while it is below req_augmented_samples (line 1091); the
\* count is incremented when the sampled value is not zero.
SampleMat(t) ==
    /\ cw.phase = "collect"
    /\ cw.thr[t].pc = "idle"
    /\ cw.issued < MaxRecords
    /\ \E guided \in BOOLEAN, nonzero \in BOOLEAN :
         LET augmented == guided /\ cw.wr.current_samples < cw.wr.req_augmented_samples
         IN  cw' = [cw EXCEPT
                      !.issued = @ + 1,
                      !.calls = IF nonzero THEN @ + 1 ELSE @,
                      !.drewAugmented = @ \/ augmented,
                      !.drawsOk = @ /\ (augmented =>
                                          cw.wr.current_samples < cw.wr.req_augmented_samples),
                      !.thr[t] = [ThreadIdle EXCEPT
                                    !.pc = IF nonzero THEN "inc_load" ELSE "idle"]]
    /\ UNCHANGED <<pth, buf, lk, adam, stree, w, env, shared, thr, ctl, rp>>

\* incSampleCount, the read of current_samples (line 1097).
IncLoad(t) ==
    /\ cw.thr[t].pc = "inc_load"
    /\ cw' = [cw EXCEPT !.thr[t].pc = "inc_store",
                        !.thr[t].count = cw.wr.current_samples]
    /\ UNCHANGED <<pth, buf, lk, adam, stree, w, env, shared, thr, ctl, rp>>

\* incSampleCount, the write of current_samples (line 1097).
IncStore(t) ==
    /\ cw.thr[t].pc = "inc_store"
    /\ cw' = [cw EXCEPT
                !.wr.current_samples = IncrementLoaded(@, cw.thr[t].count),
                !.thr[t] = ThreadIdle]
    /\ UNCHANGED <<pth, buf, lk, adam, stree, w, env, shared, thr, ctl, rp>>

\* buildSDTree once the passes of the iteration have joined their threads:
\* dTree->build(m_augment, ..., m_isBuilt), then m_isBuilt = true.
CollectBuild ==
    /\ cw.phase = "collect"
    /\ AllIdle
    /\ cw' = [cw EXCEPT !.wr = WrapperBuild(@, TRUE, FALSE, cw.isBuilt),
                        !.phase = "reset", !.iter = @ + 1, !.isBuilt = TRUE,
                        !.passedMin = FloatMax, !.calls = 0]
    /\ UNCHANGED <<pth, buf, lk, adam, stree, w, env, shared, thr, ctl, rp>>

NextCollect ==
    \/ CollectReset
    \/ CollectRequired
    \/ CollectBuild
    \/ \E t \in Threads :
         \/ BeginWrapperRecord(t) \/ MinLoad(t) \/ MinStore(t) \/ Splat(t)
         \/ SampleMat(t) \/ IncLoad(t) \/ IncStore(t)

SpecCollect == InitCollect /\ [][NextCollect]_vars

\* C26: whatever the interleaving of the record calls, once they have all
\* returned (build is called next) min_nzradiance is the smallest positive
\* irradiance passed to record since the previous build, or the float
\* maximum when there was none.
C26_MinIsSmallestPassed ==
    cw.phase = "collect" /\ AllIdle => cw.wr.min_nzradiance = cw.passedMin

\* C28: whatever the interleaving of the sampleMat calls, once they have all
\* returned current_samples has grown by the number of incSampleCount calls
\* (it is 0 after construction and after every build), and sample() drew
\* from the augmented tree only while current_samples was below
\* req_augmented_samples.
C28_NoIncrementLost ==
    /\ cw.phase = "collect" /\ AllIdle => cw.wr.current_samples = cw.calls
    /\ cw.drawsOk

----------------------------------------------------------------------------
(* SpecPath: Li builds one path record, vertex by vertex, with the
   radiance records of the emitters it meets; a replay routine that keeps
   every vertex then calls computeRadiance on it. *)

\* Longest path Li traces (m_maxDepth = -1 sets no limit) and the radiance
\* records per path.
MaxPathVertices == 130
MaxRadRecords == 1

\* Width of the std::int8_t that line 3513 casts the position to.
PosBits == 8

\* std::int8_t(n) for 0 <= n: the value modulo 2^8, in -128 .. 127.
Int8(n) ==
    LET m == n % Pow2(PosBits)
    IN  IF m >= Pow2(PosBits - 1) THEN m - Pow2(PosBits) ELSE m

\* The pos of the record of line 3513: std::int8_t(pathRecord.path.size() - 1).
PosAfterSample(last) == Int8(last)

InitPath ==
    /\ pth = [size |-> 0, radiance_records |-> <<>>, pc |-> "trace", credited |-> <<>>]
    /\ w = Idle /\ env = Idle /\ shared = Idle /\ thr = Idle /\ ctl = Idle /\ rp = Idle /\ stree = Idle /\ adam = Idle /\ lk = Idle /\ buf = Idle /\ cw = Idle

\* The ray meets emitted radiance before the next vertex is sampled: the
\* environment, an emitter or a subsurface term (lines 3276-3310) pushes
\* {int(pathRecord.path.size()) - 1, value, 0}.  `last` notes the index of
\* the last vertex at that moment.
RecordAtHit ==
    /\ pth.pc = "trace"
    /\ Len(pth.radiance_records) < MaxRadRecords
    /\ pth' = [pth EXCEPT !.radiance_records =
                             Append(@, [pos |-> pth.size - 1, last |-> pth.size - 1])]
    /\ UNCHANGED <<cw, buf, lk, adam, stree, w, env, shared, thr, ctl, rp>>

\* sampleMat and pathRecord.path.push_back (line 3355).
AddVertex ==
    /\ pth.pc = "trace"
    /\ pth.size < MaxPathVertices
    /\ pth' = [pth EXCEPT !.size = @ + 1]
    /\ UNCHANGED <<cw, buf, lk, adam, stree, w, env, shared, thr, ctl, rp>>

\* The sampled direction meets an emitter (lines 3506-3514): the record is
\* pushed after the vertex, with the position cast to std::int8_t.
RecordAfterSample ==
    /\ pth.pc = "trace"
    /\ pth.size >= 1
    /\ Len(pth.radiance_records) < MaxRadRecords
    /\ pth' = [pth EXCEPT !.radiance_records =
                             Append(@, [pos |-> PosAfterSample(pth.size - 1),
                                        last |-> pth.size - 1])]
    /\ UNCHANGED <<cw, buf, lk, adam, stree, w, env, shared, thr, ctl, rp>>

\* Li returns and renderBlock stores the path.
EndPath ==
    /\ pth.pc = "trace"
    /\ pth' = [pth EXCEPT !.pc = "stored"]
    /\ UNCHANGED <<cw, buf, lk, adam, stree, w, env, shared, thr, ctl, rp>>

\* The vertices computeRadiance adds the radiance of one record to, given
\* vertices.size() (lines 2035-2058, L valid).
CreditedVertices(pos, nVertices) ==
    IF pos >= nVertices THEN {}
    ELSE IF pos >= 0 THEN 0..pos
    ELSE {}

\* reweightCurrentPaths on the stored path: every vertex is kept, and
\* computeRadiance(curr_sample, vertices, sampler) runs over the records.
ReplayRadiance ==
    /\ pth.pc = "stored"
    /\ pth' = [pth EXCEPT
                 !.pc = "replayed",
                 !.credited = [j \in 1..Len(pth.radiance_records) |->
                                  CreditedVertices(pth.radiance_records[j].pos, pth.size)]]
    /\ UNCHANGED <<cw, buf, lk, adam, stree, w, env, shared, thr, ctl, rp>>

NextPath == RecordAtHit \/ AddVertex \/ RecordAfterSample \/ EndPath \/ ReplayRadiance

SpecPath == InitPath /\ [][NextPath]_vars

\* C29: the pos of every radiance record is the index of the last vertex of
\* the path at the moment the record was created, and computeRadiance adds
\* the record's radiance to exactly the vertices 0 .. pos.
C29_PosIsLastVertex ==
    \A j \in 1..Len(pth.radiance_records) :
        /\ pth.radiance_records[j].pos = pth.radiance_records[j].last
        /\ pth.pc = "replayed" => pth.credited[j] = 0..pth.radiance_records[j].last

====
